---- MODULE Spec2Model ----
(***************************************************************************)
(* A model of the text-extraction core of the OER ingestion job            *)
(* (cdk/glue/scripts/data_processing.py): the chunk post-processor, the    *)
(* HTML block extractor, the table renderer and the newline reflow engine. *)
(* Strings are sequences of one-character strings, so that trimming,       *)
(* prefixes, joins and the regular expressions are computed, not assumed.  *)
(***************************************************************************)
EXTENDS Integers, Sequences, FiniteSets, TLC

VARIABLES
    \* postprocess_documents
    docs, min_chars, heap, i, cleaned, ci, seen, unique, pp_pc,
    \* reflow_newline_text
    lines, line_no, cur, paragraphs, reflowed, rf_pc,
    \* render_table_markdown
    table, caption, headers, rows, table_md, tb_pc,
    \* extract_chapter_with_tables_and_media
    tree, tag_pos, processed_parents, text_blocks, block_src, stray_nodes,
    final_text, ex_pc,
    \* extract_media
    media_section, md_i, images, files, links, md_pc,
    \* extract_text
    chapters, ch_i, chapter_returns, s3_objects, all_image_data,
    extracted_chapters, et_pc,
    \* a second call on the same input
    call_no, first_return,
    \* mediaJobProcessor lambda_handler and the Glue job runs
    jp_pc, jp_records, running_count, glue_starting, glue_running,
    \* textGeneration handler and the user_sessions row
    tokens_used, updated_at, now, tl_pc, total_tokens, answered,
    \* process_chapters_to_vectors
    vec_i, vector_store, pv_pc,
    \* the faq_cache table of one textbook
    faq_cache, next_faq_id, faq_clock,
    \* handler: the FAQ check of a WebSocket request and the handler's result
    cached_response, handler_result, hd_pc

pp_vars == <<docs, min_chars, heap, i, cleaned, ci, seen, unique, pp_pc>>
rf_vars == <<lines, line_no, cur, paragraphs, reflowed, rf_pc>>
tb_vars == <<table, caption, headers, rows, table_md, tb_pc>>
ex_vars == <<tree, tag_pos, processed_parents, text_blocks, block_src,
             stray_nodes, final_text, ex_pc>>

md_vars == <<media_section, md_i, images, files, links, md_pc>>

et_vars == <<chapters, ch_i, chapter_returns, s3_objects, all_image_data,
             extracted_chapters, et_pc>>

rr_vars == <<call_no, first_return>>

jp_vars == <<jp_pc, jp_records, running_count, glue_starting, glue_running>>

tl_vars == <<tokens_used, updated_at, now, tl_pc, total_tokens, answered>>

pv_vars == <<vec_i, vector_store, pv_pc>>

fq_vars == <<faq_cache, next_faq_id, faq_clock,
            cached_response, handler_result, hd_pc>>

vars == <<pp_vars, rf_vars, tb_vars, ex_vars, md_vars, et_vars, rr_vars,
          jp_vars, tl_vars, pv_vars, fq_vars>>

\* Each function is run on its own: while one runs, the state of the others
\* is that of a function that was never called.
IdlePostprocess ==
    /\ docs = <<>> /\ min_chars = 0 /\ heap = <<>> /\ i = 0 /\ cleaned = <<>>
    /\ ci = 0 /\ seen = {} /\ unique = <<>> /\ pp_pc = "idle"

IdleReflow ==
    /\ lines = <<>> /\ line_no = 0 /\ cur = <<>> /\ paragraphs = <<>>
    /\ reflowed = <<>> /\ rf_pc = "idle"

IdleTable ==
    /\ table = <<>> /\ caption = <<>> /\ headers = <<>> /\ rows = <<>>
    /\ table_md = <<>> /\ tb_pc = "idle"

IdleExtract ==
    /\ tree = <<>> /\ tag_pos = 0 /\ processed_parents = {}
    /\ text_blocks = <<>> /\ block_src = <<>> /\ stray_nodes = <<>>
    /\ final_text = <<>> /\ ex_pc = "idle"

IdleMedia ==
    /\ media_section = <<>> /\ md_i = 0 /\ images = <<>> /\ files = <<>>
    /\ links = <<>> /\ md_pc = "idle"

IdleExtractText ==
    /\ chapters = <<>> /\ ch_i = 0 /\ chapter_returns = <<>>
    /\ s3_objects = <<>> /\ all_image_data = <<>>
    /\ extracted_chapters = <<>> /\ et_pc = "idle"

\* No call has returned yet.
IdleRerun ==
    /\ call_no = 1 /\ first_return = [text |-> <<>>, media |-> <<>>]

IdleJobProcessor ==
    /\ jp_pc = <<>> /\ jp_records = <<>> /\ running_count = <<>>
    /\ glue_starting = 0 /\ glue_running = 0

IdleTokenLimit ==
    /\ tokens_used = 0 /\ updated_at = 0 /\ now = 0
    /\ tl_pc = <<>> /\ total_tokens = <<>> /\ answered = <<>>

IdleVectors ==
    /\ vec_i = 0 /\ vector_store = <<>> /\ pv_pc = "idle"

IdleFaq ==
    /\ faq_cache = {} /\ next_faq_id = 1 /\ faq_clock = 0
    /\ cached_response = <<>> /\ handler_result = <<>> /\ hd_pc = "idle"

(***************************************************************************)
(* Characters and strings                                                  *)
(***************************************************************************)
Rep(c, n) == [k \in 1..n |-> c]

IsSpace(c) == c \in {" ", "\t", "\n", "\r"}

RECURSIVE LStrip(_)
LStrip(s) == IF s # <<>> /\ IsSpace(Head(s)) THEN LStrip(Tail(s)) ELSE s

RECURSIVE RStrip(_)
RStrip(s) ==
    IF s # <<>> /\ IsSpace(s[Len(s)]) THEN RStrip(SubSeq(s, 1, Len(s) - 1)) ELSE s

\* str.strip()
Strip(s) == LStrip(RStrip(s))

\* s[:n]
Prefix(s, n) == SubSeq(s, 1, IF Len(s) < n THEN Len(s) ELSE n)

\* The characters of TERM_RE: [\.!\?ELLIPSIS] then ['\"\)\]]* then \s*$.
\* Characters outside ASCII are written by name: "ELLIPSIS" is U+2026,
\* "RAQUO" is U+00BB and "RDQUO" is U+201D.
TermChars == {".", "!", "?", "ELLIPSIS"}
TermClosers == {"'", "\"", ")", "]"}

RECURSIVE RStripClosers(_)
RStripClosers(s) ==
    IF s # <<>> /\ s[Len(s)] \in TermClosers
    THEN RStripClosers(SubSeq(s, 1, Len(s) - 1))
    ELSE s

\* bool(TERM_RE.search(s))
TERM_RE(s) ==
    LET t == RStripClosers(RStrip(s))
    IN  t # <<>> /\ t[Len(t)] \in TermChars

\* ends_with_terminal(text)
ends_with_terminal(text) == TERM_RE(Strip(text))

(***************************************************************************)
(* postprocess_documents(docs, min_chars)                                  *)
(***************************************************************************)
MaxDocs == 3
FingerprintLen == 200
DefaultMinChars == 600

Pad200 == Rep("a", FingerprintLen)

\* Chunk texts as the recursive splitter hands them over: non-empty and
\* without surrounding whitespace.  Three of them share their first 200
\* characters and differ only after them.
ChunkTexts ==
    { <<"b">>, <<"a", ".">>, <<"b", ".", ")">>, <<"b", ")">>,
      Pad200 \o <<"a", ".">>, Pad200 \o <<"b", ".">>, Pad200 \o <<"b">> }

MinCharsChoices == {2, FingerprintLen + 2, DefaultMinChars}

\* The metadata dict of input chunk k (1-based): neighbours differ in their
\* keys and in their values.
MetaOf(k) ==
    IF k % 2 = 1 THEN [source |-> k] ELSE [source |-> k, section_id |-> k]

DocLists == UNION {[1..n -> ChunkTexts] : n \in 0..MaxDocs}

InitPostprocess ==
    /\ \E ts \in DocLists :
          /\ docs = [k \in 1..Len(ts) |-> [page_content |-> ts[k], metadata |-> k]]
          /\ heap = [k \in 1..Len(ts) |-> MetaOf(k)]
    /\ min_chars \in MinCharsChoices
    /\ i = 0
    /\ cleaned = <<>>
    /\ ci = 0
    /\ seen = {}
    /\ unique = <<>>
    /\ pp_pc = "merge"
    /\ IdleReflow /\ IdleTable /\ IdleExtract /\ IdleMedia /\ IdleExtractText /\ IdleRerun /\ IdleJobProcessor /\ IdleTokenLimit /\ IdleVectors /\ IdleFaq

\* The condition of the if in the merge loop (i is 0-based as in the source).
MergeCondNoSizeTest(cur_text, min, idx, L) ==
    (~ends_with_terminal(cur_text)) /\ idx + 1 < L

MergeCond(cur_text, min, idx, L) ==
    (Len(cur_text) < min \/ ~ends_with_terminal(cur_text)) /\ idx + 1 < L

\* Document(page_content=merged_text, metadata=dict(cur_meta)): the text and
\* the content of the new metadata dict.
MergedDocumentUnionMeta(cur_text, cur_meta, next_text, next_meta) ==
    [page_content |-> Strip(cur_text \o <<" ">> \o next_text),
     meta |-> [k \in DOMAIN cur_meta \cup DOMAIN next_meta |->
                 IF k \in DOMAIN cur_meta THEN cur_meta[k] ELSE next_meta[k]]]

MergedDocumentFirstOnly(cur_text, cur_meta, next_text, next_meta) ==
    [page_content |-> cur_text, meta |-> cur_meta]

MergedDocumentNoSpace(cur_text, cur_meta, next_text, next_meta) ==
    [page_content |-> Strip(cur_text \o next_text), meta |-> cur_meta]

MergedDocument(cur_text, cur_meta, next_text, next_meta) ==
    [page_content |-> Strip(cur_text \o <<" ">> \o next_text), meta |-> cur_meta]

\* A fresh dict object: the next unused object id.
NewId(h) == Cardinality(DOMAIN h) + 1

\* One iteration of the while loop.  The fields first and count of an output
\* record are history: the 0-based index of the first input chunk it was
\* built from and the number of input chunks it holds.
MergeStep ==
    /\ pp_pc = "merge"
    /\ i < Len(docs)
    /\ LET cur_text == Strip(docs[i + 1].page_content)
           cur_meta == heap[docs[i + 1].metadata]
           id == NewId(heap)
       IN  \/ /\ MergeCond(cur_text, min_chars, i, Len(docs))
              /\ LET d == MergedDocument(cur_text, cur_meta,
                                         docs[i + 2].page_content,
                                         heap[docs[i + 2].metadata])
                 IN  /\ cleaned' = Append(cleaned,
                            [page_content |-> d.page_content, metadata |-> id,
                             first |-> i, count |-> 2])
                     /\ heap' = [k \in DOMAIN heap \cup {id} |->
                                    IF k = id THEN d.meta ELSE heap[k]]
              /\ i' = i + 2
           \/ /\ ~MergeCond(cur_text, min_chars, i, Len(docs))
              /\ cleaned' = Append(cleaned,
                     [page_content |-> cur_text, metadata |-> id,
                      first |-> i, count |-> 1])
              /\ heap' = [k \in DOMAIN heap \cup {id} |->
                             IF k = id THEN cur_meta ELSE heap[k]]
              /\ i' = i + 1
    /\ UNCHANGED <<docs, min_chars, ci, seen, unique, pp_pc, rf_vars, tb_vars, ex_vars, md_vars, et_vars, rr_vars, jp_vars, tl_vars, pv_vars, fq_vars>>

\* The while condition fails: on to the deduplication loop.
MergeExit ==
    /\ pp_pc = "merge"
    /\ i >= Len(docs)
    /\ pp_pc' = "dedup"
    /\ UNCHANGED <<docs, min_chars, heap, i, cleaned, ci, seen, unique, rf_vars, tb_vars, ex_vars, md_vars, et_vars, rr_vars, jp_vars, tl_vars, pv_vars, fq_vars>>

\* key = c.page_content[:200]
DedupKeyWholeText(text) == text

DedupKey(text) == Prefix(text, FingerprintLen)

\* One iteration of `for c in cleaned`.
DedupStep ==
    /\ pp_pc = "dedup"
    /\ ci < Len(cleaned)
    /\ LET c == cleaned[ci + 1]
           key == DedupKey(c.page_content)
       IN  \/ /\ key \in seen
              /\ UNCHANGED <<seen, unique>>
           \/ /\ key \notin seen
              /\ seen' = seen \cup {key}
              /\ unique' = Append(unique, c)
    /\ ci' = ci + 1
    /\ UNCHANGED <<docs, min_chars, heap, i, cleaned, pp_pc, rf_vars, tb_vars, ex_vars, md_vars, et_vars, rr_vars, jp_vars, tl_vars, pv_vars, fq_vars>>

\* return unique
DedupExit ==
    /\ pp_pc = "dedup"
    /\ ci >= Len(cleaned)
    /\ pp_pc' = "done"
    /\ UNCHANGED <<docs, min_chars, heap, i, cleaned, ci, seen, unique, rf_vars, tb_vars, ex_vars, md_vars, et_vars, rr_vars, jp_vars, tl_vars, pv_vars, fq_vars>>

NextPostprocess == MergeStep \/ MergeExit \/ DedupStep \/ DedupExit

SpecPostprocess == InitPostprocess /\ [][NextPostprocess]_vars

(***************************************************************************)
(* Claims about postprocess_documents                                      *)
(***************************************************************************)
\* The terminal-punctuation test in the words of the specification: after
\* trailing whitespace is trimmed, the last character that is not a closing
\* quote or bracket is one of . ! ? ELLIPSIS
SpecEndsWithTerminal(s) ==
    LET t == RStrip(s)
        sig == {k \in 1..Len(t) : t[k] \notin TermClosers}
    IN  /\ sig # {}
        /\ t[CHOOSE k \in sig : \A j \in sig : j <= k] \in TermChars

\* The elements of s at the indices in S, in increasing order of index.
RECURSIVE SubAt(_, _, _)
SubAt(s, S, k) ==
    IF k > Len(s) THEN <<>>
    ELSE (IF k \in S THEN <<s[k]>> ELSE <<>>) \o SubAt(s, S, k + 1)

\* C1 as stated: when postprocess_documents has returned, every output chunk
\* but the last has a text of at least min_chars characters.
C1_EveryChunkButLastReachesMin ==
    pp_pc = "done" =>
        \A k \in 1..(Len(unique) - 1) : Len(unique[k].page_content) >= min_chars

\* C1 amended: when postprocess_documents has returned, an output chunk whose
\* text is shorter than min_chars is the last chunk of the output or was
\* produced by merging two input chunks.
C1_ShortChunkIsLastOrMerged ==
    pp_pc = "done" =>
        \A k \in 1..Len(unique) :
            Len(unique[k].page_content) < min_chars =>
                k = Len(unique) \/ unique[k].count = 2

\* A merged chunk that is still shorter than min_chars and is not the last.
C1_Witness ==
    /\ pp_pc = "done"
    /\ \E k \in 1..(Len(unique) - 1) :
          /\ Len(unique[k].page_content) < min_chars
          /\ unique[k].count = 2

\* C2: every chunk put out carries a metadata dict of its own (no input
\* chunk's dict object) whose content is exactly that of the first input
\* chunk it was built from, so a merged chunk has no key or value of chunk
\* i+1; and the input chunks' metadata dicts are as they were passed in.
C2_MergedKeepsFirstMetadata ==
    LET inputIds == {docs[k].metadata : k \in 1..Len(docs)}
        ok(c) == /\ c.metadata \notin inputIds
                 /\ heap[c.metadata] = MetaOf(c.first + 1)
    IN  /\ \A k \in 1..Len(docs) :
              docs[k].metadata = k /\ heap[k] = MetaOf(k)
        /\ \A k \in 1..Len(cleaned) : ok(cleaned[k])
        /\ \A k \in 1..Len(unique) : ok(unique[k])

\* A merged chunk is among the chunks returned.
C2_Witness ==
    /\ pp_pc = "done"
    /\ \E k \in 1..Len(unique) :
          /\ unique[k].count = 2
          /\ heap[unique[k].metadata] # MetaOf(unique[k].first + 2)

\* C3: each step of the scan looks at chunk i: if chunk i+1 exists and chunk
\* i, trimmed, is shorter than min_chars or does not end in terminal
\* punctuation, the step emits text[i] + " " + text[i+1] and advances i by 2;
\* otherwise it emits chunk i, trimmed, and advances i by 1.  And two chunks
\* that are both shorter than min_chars come out as one chunk, both texts
\* joined by one space.
C3_ScanRule ==
    /\ [][ (pp_pc = "merge" /\ i < Len(docs)) =>
             LET chunk_i == Strip(docs[i + 1].page_content)
                 merge == /\ i + 1 < Len(docs)
                          /\ \/ Len(chunk_i) < min_chars
                             \/ ~SpecEndsWithTerminal(chunk_i)
             IN  /\ Len(cleaned') = Len(cleaned) + 1
                 /\ SubSeq(cleaned', 1, Len(cleaned)) = cleaned
                 /\ IF merge
                    THEN /\ cleaned'[Len(cleaned')].page_content =
                                chunk_i \o <<" ">> \o docs[i + 2].page_content
                         /\ i' = i + 2
                    ELSE /\ cleaned'[Len(cleaned')].page_content = chunk_i
                         /\ i' = i + 1 ]_vars
    /\ [](  ( /\ pp_pc = "done"
              /\ Len(docs) = 2
              /\ Len(docs[1].page_content) < min_chars
              /\ Len(docs[2].page_content) < min_chars )
            => /\ Len(unique) = 1
               /\ unique[1].page_content =
                      docs[1].page_content \o <<" ">> \o docs[2].page_content )

\* A scan that merged one pair and kept another chunk as it was, ahead of
\* the last chunk.
C3_Witness ==
    /\ pp_pc = "done"
    /\ \E j \in 1..Len(cleaned) : cleaned[j].count = 2
    /\ \E k \in 1..(Len(cleaned) - 1) : cleaned[k].count = 1

\* C4: when postprocess_documents has returned, no two output chunks have
\* the same first 200 characters, and the output is the merged sequence
\* with exactly the later chunks of each 200-character prefix removed: the
\* first of each prefix survives and the survivors keep their order.
C4_DedupByPrefix ==
    pp_pc = "done" =>
        LET P(c) == Prefix(c.page_content, FingerprintLen)
            firsts == {k \in 1..Len(cleaned) :
                          \A j \in 1..(k - 1) : P(cleaned[j]) # P(cleaned[k])}
        IN  /\ \A j, k \in 1..Len(unique) :
                  j < k => P(unique[j]) # P(unique[k])
            /\ unique = SubAt(cleaned, firsts, 1)

\* Two merged chunks of different text but equal first 200 characters, of
\* which the second was dropped while a later chunk survived.
C4_Witness ==
    /\ pp_pc = "done"
    /\ Len(unique) >= 2
    /\ \E j, k \in 1..Len(cleaned) :
          /\ j < k
          /\ k < Len(cleaned)
          /\ cleaned[j].page_content # cleaned[k].page_content
          /\ Prefix(cleaned[j].page_content, FingerprintLen) =
                Prefix(cleaned[k].page_content, FingerprintLen)
          /\ cleaned[Len(cleaned)] = unique[Len(unique)]

\* C21: the merge pass is single-pass and greedy.  Before deduplication
\* every output chunk is built from one input chunk or from two consecutive
\* ones (its text is that chunk trimmed, or that chunk trimmed, a space and
\* the next chunk), never from three or more; the output chunks, in order,
\* take up the input chunks in order, each input chunk in exactly one output
\* chunk; and when the pass is over every input chunk has been taken up.
C21_SinglePassGreedyMerge ==
    LET end(k) == cleaned[k].first + cleaned[k].count
        text(k) == Strip(docs[k].page_content)
    IN  /\ \A k \in 1..Len(cleaned) :
              /\ cleaned[k].count \in {1, 2}
              /\ cleaned[k].first = IF k = 1 THEN 0 ELSE end(k - 1)
              /\ end(k) <= Len(docs)
              /\ cleaned[k].page_content =
                    IF cleaned[k].count = 1
                    THEN text(cleaned[k].first + 1)
                    ELSE Strip(text(cleaned[k].first + 1) \o <<" ">>
                                  \o docs[cleaned[k].first + 2].page_content)
        /\ i = IF cleaned = <<>> THEN 0 ELSE end(Len(cleaned))
        /\ pp_pc \in {"dedup", "done"} => i = Len(docs)

\* Three input chunks: the first two were merged into a chunk that still
\* does not end a sentence, and the third was emitted after it on its own.
C21_Witness ==
    /\ pp_pc = "dedup"
    /\ Len(docs) = 3
    /\ Len(cleaned) = 2
    /\ cleaned[1].count = 2
    /\ ~ends_with_terminal(cleaned[1].page_content)
    /\ cleaned[2].first = 2

(***************************************************************************)
(* reflow_newline_text(text)                                               *)
(***************************************************************************)
MaxLines == 3
HeadingTailMax == 80
MaxHeadingWords == 8
LongLineLen == 80

UpperChars ==
    {"A", "B", "C", "D", "E", "F", "G", "H", "I", "J", "K", "L", "M",
     "N", "O", "P", "Q", "R", "S", "T", "U", "V", "W", "X", "Y", "Z"}
LowerChars ==
    {"a", "b", "c", "d", "e", "f", "g", "h", "i", "j", "k", "l", "m",
     "n", "o", "p", "q", "r", "s", "t", "u", "v", "w", "x", "y", "z"}
DigitChars == {"0", "1", "2", "3", "4", "5", "6", "7", "8", "9"}

\* The character class of SENT_END_RE: . ! ? ELLIPSIS RAQUO RDQUO ' )
SentEndChars == {".", "!", "?", "ELLIPSIS", "RAQUO", "RDQUO", "'", ")"}

\* bool(SENT_END_RE.search(s)): one character of the class, then \s*$
SENT_END_RE(s) ==
    LET t == RStrip(s)
    IN  t # <<>> /\ t[Len(t)] \in SentEndChars

\* HEADING_LIKE_RE.match(s): ^[A-Z0-9][A-Za-z0-9 \-]{0,80}$
HEADING_LIKE_RE(s) ==
    /\ s # <<>>
    /\ s[1] \in UpperChars \cup DigitChars
    /\ Len(s) - 1 <= HeadingTailMax
    /\ \A k \in 2..Len(s) :
          s[k] \in UpperChars \cup LowerChars \cup DigitChars \cup {" ", "-"}

\* len(s.split())
WordCount(s) ==
    Cardinality({k \in 1..Len(s) :
                    ~IsSpace(s[k]) /\ (k = 1 \/ IsSpace(s[k - 1]))})

\* str.isupper(): a cased character, and no lowercase one
isupper(s) ==
    /\ \E k \in 1..Len(s) : s[k] \in UpperChars
    /\ \A k \in 1..Len(s) : s[k] \notin LowerChars

is_heading_like(ln) ==
    /\ 1 <= WordCount(ln)
    /\ WordCount(ln) <= MaxHeadingWords
    /\ (isupper(ln) \/ HEADING_LIKE_RE(ln))

\* sep.join(parts)
RECURSIVE JoinWith(_, _)
JoinWith(parts, sep) ==
    IF parts = <<>> THEN <<>>
    ELSE IF Len(parts) = 1 THEN parts[1]
    ELSE parts[1] \o sep \o JoinWith(Tail(parts), sep)

flush_curLastLineOnly(c, ps) ==
    IF c # <<>> THEN Append(ps, c[Len(c)]) ELSE ps

flush_curDropsBuffer(c, ps) == ps

\* flush_cur(): the paragraphs after the call (cur is cleared by the caller)
flush_cur(c, ps) ==
    IF c # <<>> THEN Append(ps, Strip(JoinWith(c, <<" ">>))) ELSE ps

NonEmpty(p) == p # <<>>

Chars80 == Rep("a", LongLineLen)

\* The lines of the input after the newlines are normalised and the text is
\* split on "\n", as they come: blank, with a leading space, ending in
\* terminal punctuation with or without a closing quote or bracket,
\* heading-like by the pattern or by being upper case, long, matching the
\* heading pattern with 81 characters, and upper case with nine words.
ReflowLines ==
    { <<>>,
      <<"H", "i", ".">>,
      <<"i", "t">>,
      <<" ", "u", "s">>,
      <<"I", "t">>,
      <<"N", "O", "!">>,
      <<"n", "o", ".", "\"">>,
      <<"o", "k", ")">>,
      Chars80,
      <<"A">> \o Rep("a", HeadingTailMax),
      <<"A", " ", "A", " ", "A", " ", "A", " ", "A", " ", "A", " ", "A", " ",
        "A", " ", "A">>,
      <<"H", "e", "l", "l", "o", " ", "w", "o", "r", "l", "d", ".">>,
      <<"T", "h", "i", "s", " ", "c", "o", "n", "t", "i", "n", "u", "e", "s">> }

LineLists == UNION {[1..n -> ReflowLines] : n \in 0..MaxLines}

InitReflow ==
    /\ lines \in LineLists
    /\ line_no = 0
    /\ cur = <<>>
    /\ paragraphs = <<>>
    /\ reflowed = <<>>
    /\ rf_pc = "scan"
    /\ IdlePostprocess /\ IdleTable /\ IdleExtract /\ IdleMedia /\ IdleExtractText /\ IdleRerun /\ IdleJobProcessor /\ IdleTokenLimit /\ IdleVectors /\ IdleFaq

\* One iteration of `for i, line in enumerate(lines)`; line_no is i.
ReflowLine ==
    /\ rf_pc = "scan"
    /\ line_no < Len(lines)
    /\ LET ln == Strip(lines[line_no + 1])
           nxt == IF line_no + 1 < Len(lines)
                  THEN Strip(lines[line_no + 2]) ELSE <<>>
           nxt_starts_lower == nxt # <<>> /\ nxt[1] \in LowerChars
           cur_ends_with_sentence == SENT_END_RE(ln)
       IN  \/ /\ ln = <<>>
              /\ paragraphs' = flush_cur(cur, paragraphs)
              /\ cur' = <<>>
           \/ /\ ln # <<>>
              /\ is_heading_like(ln)
              /\ paragraphs' = Append(flush_cur(cur, paragraphs), ln)
              /\ cur' = <<>>
           \/ /\ ln # <<>>
              /\ ~is_heading_like(ln)
              /\ cur_ends_with_sentence
              /\ paragraphs' = flush_cur(Append(cur, ln), paragraphs)
              /\ cur' = <<>>
           \/ /\ ln # <<>>
              /\ ~is_heading_like(ln)
              /\ ~cur_ends_with_sentence
              /\ nxt = <<>>
              /\ paragraphs' = flush_cur(Append(cur, ln), paragraphs)
              /\ cur' = <<>>
           \/ /\ ln # <<>>
              /\ ~is_heading_like(ln)
              /\ ~cur_ends_with_sentence
              /\ nxt # <<>>
              /\ nxt_starts_lower
              /\ cur' = Append(cur, ln)
              /\ paragraphs' = paragraphs
           \/ /\ ln # <<>>
              /\ ~is_heading_like(ln)
              /\ ~cur_ends_with_sentence
              /\ nxt # <<>>
              /\ ~nxt_starts_lower
              /\ Len(ln) < LongLineLen
              /\ cur' = Append(cur, ln)
              /\ paragraphs' = paragraphs
           \/ /\ ln # <<>>
              /\ ~is_heading_like(ln)
              /\ ~cur_ends_with_sentence
              /\ nxt # <<>>
              /\ ~nxt_starts_lower
              /\ Len(ln) >= LongLineLen
              /\ paragraphs' = flush_cur(Append(cur, ln), paragraphs)
              /\ cur' = <<>>
    /\ line_no' = line_no + 1
    /\ UNCHANGED <<lines, reflowed, rf_pc, pp_vars, tb_vars, ex_vars, md_vars, et_vars, rr_vars, jp_vars, tl_vars, pv_vars, fq_vars>>

\* After the loop: flush_cur() and return the non-empty paragraphs joined
\* by "\n\n".
ReflowReturn ==
    /\ rf_pc = "scan"
    /\ line_no >= Len(lines)
    /\ paragraphs' = flush_cur(cur, paragraphs)
    /\ cur' = <<>>
    /\ reflowed' = JoinWith(SelectSeq(paragraphs', NonEmpty), <<"\n", "\n">>)
    /\ rf_pc' = "done"
    /\ UNCHANGED <<lines, line_no, pp_vars, tb_vars, ex_vars, md_vars, et_vars, rr_vars, jp_vars, tl_vars, pv_vars, fq_vars>>

NextReflow == ReflowLine \/ ReflowReturn

SpecReflow == InitReflow /\ [][NextReflow]_vars

(***************************************************************************)
(* Claims about reflow_newline_text                                        *)
(***************************************************************************)
\* The line the loop is looking at, trimmed.
CurrentLine == Strip(lines[line_no + 1])

\* C10: a line that is not heading-like and ends with terminal punctuation
\* closes the current paragraph whatever the next line is: after its step
\* the buffer is empty and the paragraph made of the buffer and the line has
\* been put out.  And the input "Hello world." / "This continues" gives the
\* two paragraphs "Hello world." and "This continues".
C10_TerminalLineClosesParagraph ==
    /\ [][ ( /\ rf_pc = "scan"
             /\ line_no < Len(lines)
             /\ CurrentLine # <<>>
             /\ ~is_heading_like(CurrentLine)
             /\ SpecEndsWithTerminal(CurrentLine) )
           => /\ cur' = <<>>
              /\ paragraphs' =
                    Append(paragraphs,
                           JoinWith(Append(cur, CurrentLine), <<" ">>)) ]_vars
    /\ []( ( /\ rf_pc = "done"
             /\ lines = << <<"H", "e", "l", "l", "o", " ", "w", "o", "r", "l", "d", ".">>,
                           <<"T", "h", "i", "s", " ", "c", "o", "n", "t", "i", "n", "u", "e", "s">> >> )
           => paragraphs =
                 << <<"H", "e", "l", "l", "o", " ", "w", "o", "r", "l", "d", ".">>,
                    <<"T", "h", "i", "s", " ", "c", "o", "n", "t", "i", "n", "u", "e", "s">> >> )

\* The lines of the input, trimmed.
TrimmedLines == [k \in DOMAIN lines |-> Strip(lines[k])]

\* C11: a heading-like line is put out as a paragraph of its own: at its
\* step the buffer gathered before it becomes a separate paragraph, the
\* line alone becomes the next paragraph, and the buffer is left empty so
\* that no later line joins it; when the function has returned, the
\* heading-like paragraphs are exactly the heading-like lines, in order.
C11_HeadingIsOwnParagraph ==
    /\ [][ ( /\ rf_pc = "scan"
             /\ line_no < Len(lines)
             /\ CurrentLine # <<>>
             /\ is_heading_like(CurrentLine) )
           => /\ cur' = <<>>
              /\ paragraphs' =
                    (IF cur = <<>> THEN paragraphs
                     ELSE Append(paragraphs, Strip(JoinWith(cur, <<" ">>))))
                    \o <<CurrentLine>> ]_vars
    /\ [](rf_pc = "done" =>
             SelectSeq(paragraphs, is_heading_like)
                = SelectSeq(TrimmedLines, is_heading_like))

\* A heading-like line between a buffered line and a following line came
\* out as the second of three paragraphs.
C11_Witness ==
    /\ rf_pc = "done"
    /\ Len(lines) = 3
    /\ Len(paragraphs) = 3
    /\ ~is_heading_like(TrimmedLines[1]) /\ ~SENT_END_RE(TrimmedLines[1])
    /\ is_heading_like(TrimmedLines[2])
    /\ isupper(TrimmedLines[2])
    /\ TrimmedLines[3] # <<>> /\ ~is_heading_like(TrimmedLines[3])
    /\ paragraphs = TrimmedLines

\* C25: a line that is not heading-like, does not end in terminal
\* punctuation and is followed by a non-blank line is appended to the
\* buffer; the buffer is kept (nothing is put out) if the next line starts
\* with a lowercase letter or the line is shorter than 80 characters, and it
\* is flushed as one paragraph if the next line does not start lowercase
\* and the line has 80 characters or more.
C25_SoftWrapAndLongLineRule ==
    [][ ( /\ rf_pc = "scan"
          /\ line_no + 1 < Len(lines)
          /\ CurrentLine # <<>>
          /\ ~is_heading_like(CurrentLine)
          /\ ~SpecEndsWithTerminal(CurrentLine)
          /\ Strip(lines[line_no + 2]) # <<>> )
        => LET nxt == Strip(lines[line_no + 2])
           IN  IF nxt[1] \in LowerChars \/ Len(CurrentLine) < LongLineLen
               THEN /\ cur' = Append(cur, CurrentLine)
                    /\ paragraphs' = paragraphs
               ELSE /\ cur' = <<>>
                    /\ paragraphs' =
                          Append(paragraphs,
                                 JoinWith(Append(cur, CurrentLine), <<" ">>))
      ]_vars

\* The positions of the non-blank lines, in order.
NonBlankIdx ==
    LET NonBlankAt(k) == Strip(lines[k]) # <<>>
    IN  SelectSeq([k \in 1..Len(lines) |-> k], NonBlankAt)

\* The sequence ls cut into groups of consecutive elements, with a cut
\* after position k for every k in C.
RECURSIVE SplitAt(_, _, _)
SplitAt(ls, C, k) ==
    IF k > Len(ls) THEN <<>>
    ELSE LET rest == SplitAt(ls, C, k + 1)
         IN  IF k = Len(ls) \/ k \in C
             THEN << <<ls[k]>> >> \o rest
             ELSE << <<ls[k]>> \o rest[1] >> \o Tail(rest)

\* C26: nothing is lost or reordered.  When the function has returned, the
\* paragraphs are the non-blank lines, trimmed, in input order, cut into
\* groups of consecutive lines, each group joined by single spaces: every
\* non-blank line is in exactly one paragraph, no paragraph is empty, and
\* two lines with a blank line between them are in different paragraphs;
\* the text returned is the paragraphs joined by blank lines.  The buffer
\* left when the input ends is put out as the last paragraph.
C26_NothingLostOrReordered ==
    /\ [](rf_pc = "done" =>
            LET idx == NonBlankIdx
                ls == [k \in DOMAIN idx |-> Strip(lines[idx[k]])]
                blankBetween == {k \in 1..(Len(idx) - 1) : idx[k + 1] > idx[k] + 1}
            IN  /\ \E C \in SUBSET (1..(Len(ls) - 1)) :
                      /\ blankBetween \subseteq C
                      /\ LET groups == SplitAt(ls, C, 1)
                         IN  paragraphs =
                                [k \in DOMAIN groups |-> JoinWith(groups[k], <<" ">>)]
                /\ \A k \in DOMAIN paragraphs : paragraphs[k] # <<>>
                /\ reflowed = JoinWith(paragraphs, <<"\n", "\n">>))
    /\ [][ (rf_pc = "scan" /\ line_no >= Len(lines)) =>
              paragraphs' = IF cur = <<>> THEN paragraphs
                            ELSE Append(paragraphs, JoinWith(cur, <<" ">>)) ]_vars

\* Three non-blank lines came out as two paragraphs: the first two lines,
\* the second trimmed of its leading space, joined by one space, and the
\* third on its own.
C26_Witness ==
    /\ rf_pc = "done"
    /\ Len(lines) = 3
    /\ Len(paragraphs) = 2
    /\ lines[2] # Strip(lines[2])
    /\ paragraphs[1] = Strip(lines[1]) \o <<" ">> \o Strip(lines[2])
    /\ paragraphs[2] = Strip(lines[3])

\* Heading-like in the words of the specification: 1 to 8 words, and fully
\* upper case or matching the title-case pattern with at most 80
\* characters in all.
SpecHeadingLike(s) ==
    /\ 1 <= WordCount(s) /\ WordCount(s) <= MaxHeadingWords
    /\ \/ isupper(s)
       \/ /\ s[1] \in UpperChars \cup DigitChars
          /\ \A k \in 2..Len(s) :
                s[k] \in UpperChars \cup LowerChars \cup DigitChars \cup {" ", "-"}
          /\ Len(s) <= HeadingTailMax

\* C27: a line is treated as a heading only if it has 1 to 8 words and is
\* fully upper case or matches the title-case pattern with a total length
\* of at most 80 characters.  On a line that does not end a sentence and is
\* followed by a line starting with a lowercase letter, the two treatments
\* differ: a heading flushes the buffer and becomes a paragraph of its own,
\* any other line joins the buffer.  So such a line that is not
\* heading-like in this sense (a mixed-case line of 81 characters or more,
\* a line of 9 words or more) joins the buffer.
C27_HeadingLikeBounds ==
    [][ ( /\ rf_pc = "scan"
          /\ line_no + 1 < Len(lines)
          /\ CurrentLine # <<>>
          /\ ~SENT_END_RE(CurrentLine)
          /\ Strip(lines[line_no + 2]) # <<>>
          /\ Strip(lines[line_no + 2])[1] \in LowerChars
          /\ ~SpecHeadingLike(CurrentLine) )
        => /\ cur' = Append(cur, CurrentLine)
           /\ paragraphs' = paragraphs ]_vars

\* C17: the test reflow_newline_text applies to a line and the test
\* postprocess_documents applies to a chunk give the same answer on every
\* line the loop looks at, and that answer is: after trailing whitespace is
\* trimmed, the last character that is not a closing quote or bracket is
\* one of . ! ? ELLIPSIS
C17_SameTerminalTest ==
    (rf_pc = "scan" /\ line_no < Len(lines) /\ CurrentLine # <<>>) =>
        /\ SENT_END_RE(CurrentLine) = ends_with_terminal(CurrentLine)
        /\ ends_with_terminal(CurrentLine) = SpecEndsWithTerminal(CurrentLine)

(***************************************************************************)
(* render_table_markdown(table)                                            *)
(***************************************************************************)
MaxRows == 2
MaxCells == 2

CellTexts == {<<"A">>, <<"B">>}

\* A <tr> is the sequence of its <th>/<td> cells, each with its text as
\* get_text(" ", strip=True) returns it.  The first row may mix th and td.
Cell(tags) == [tag : tags, text : CellTexts]
FirstTrs == UNION {[1..n -> Cell({"th", "td"})] : n \in 0..MaxCells}
LaterTrs == UNION {[1..n -> Cell({"td"})] : n \in 0..MaxCells}

TrLists ==
    {<<>>} \cup
    { <<f>> \o rest : f \in FirstTrs,
                      rest \in UNION {[1..n -> LaterTrs] : n \in 0..(MaxRows - 1)} }

\* A <table>: its <caption> (if any) with the raw text, the number of
\* leading rows that stand inside a <thead> (-1: no <thead> element) and
\* all its <tr> in document order.
Tables ==
    { [cap |-> c, thead |-> h, trs |-> t] :
        c \in { [present |-> FALSE, text |-> <<>>],
                [present |-> TRUE, text |-> <<" ">>],
                [present |-> TRUE, text |-> <<"F", "i", "g", " ", "1">>] },
        h \in {-1, 0, 1},
        t \in TrLists }

InitTable ==
    /\ table \in {t \in Tables : t.thead <= Len(t.trs)}
    /\ caption = <<>>
    /\ headers = <<>>
    /\ rows = <<>>
    /\ table_md = <<>>
    /\ tb_pc = "render"
    /\ IdlePostprocess /\ IdleReflow /\ IdleExtract /\ IdleMedia /\ IdleExtractText /\ IdleRerun /\ IdleJobProcessor /\ IdleTokenLimit /\ IdleVectors /\ IdleFaq

\* [c.get_text(" ", strip=True) for c in tr.find_all(tags)]
RECURSIVE CellTextsOf(_, _)
CellTextsOf(tr, tags) ==
    IF tr = <<>> THEN <<>>
    ELSE (IF tr[1].tag \in tags THEN <<tr[1].text>> ELSE <<>>)
         \o CellTextsOf(Tail(tr), tags)

\* caption_tag.get_text(" ", strip=True) if caption_tag else ''
TableCaption(t) == IF t.cap.present THEN Strip(t.cap.text) ELSE <<>>

\* The th/td cells of every row inside <thead>.
RECURSIVE TheadCells(_, _)
TheadCells(t, n) ==
    IF n = 0 THEN <<>>
    ELSE TheadCells(t, n - 1) \o CellTextsOf(t.trs[n], {"th", "td"})

\* headers: the cells of <thead>, else the <th> cells of the first <tr>
TableHeaders(t) ==
    IF t.thead >= 0 THEN TheadCells(t, t.thead)
    ELSE IF t.trs # <<>> THEN CellTextsOf(t.trs[1], {"th"})
    ELSE <<>>

\* rows: the cell texts of every <tr> that has cells
RECURSIVE TableRows(_)
TableRows(trs) ==
    IF trs = <<>> THEN <<>>
    ELSE LET cells == CellTextsOf(trs[1], {"td", "th"})
         IN  (IF cells # <<>> THEN <<cells>> ELSE <<>>) \o TableRows(Tail(trs))

\* all(h == r for h, r in zip(headers, rows[0])): zip stops at the shorter
ZipAllEqual(hs, r) ==
    \A k \in 1..(IF Len(hs) < Len(r) THEN Len(hs) ELSE Len(r)) : hs[k] = r[k]

\* rows after `if headers and rows and all(...): rows = rows[1:]`
RetainedRows(hs, rs) ==
    IF hs # <<>> /\ rs # <<>> /\ ZipAllEqual(hs, rs[1]) THEN Tail(rs) ELSE rs

\* "| " + " | ".join(cells) + " |"
PipeLine(cells) ==
    <<"|", " ">> \o JoinWith(cells, <<" ", "|", " ">>) \o <<" ", "|">>

\* f"[Table: {caption}]"
CaptionLine(c) == <<"[", "T", "a", "b", "l", "e", ":", " ">> \o c \o <<"]">>

\* "| " + " | ".join(["---"]*len(headers)) + " |"
SeparatorLineShort(hs) == PipeLine([k \in 1..(Len(hs) - 1) |-> <<"-", "-", "-">>])

SeparatorLine(hs) == PipeLine([k \in 1..Len(hs) |-> <<"-", "-", "-">>])

RECURSIVE RowLines(_)
RowLines(rs) ==
    IF rs = <<>> THEN <<>> ELSE <<PipeLine(rs[1])>> \o RowLines(Tail(rs))

\* The list `lines` before the final join.
TableLines(c, hs, rs) ==
    (IF c # <<>> THEN <<CaptionLine(c)>> ELSE <<>>)
    \o (IF hs # <<>> THEN <<PipeLine(hs), SeparatorLine(hs)>> ELSE <<>>)
    \o RowLines(rs)

\* The whole function: the table is read, the duplicate of the header row
\* is removed and the lines are joined by "\n".
RenderTable ==
    /\ tb_pc = "render"
    /\ caption' = TableCaption(table)
    /\ headers' = TableHeaders(table)
    /\ rows' = RetainedRows(headers', TableRows(table.trs))
    /\ table_md' = JoinWith(TableLines(caption', headers', rows'), <<"\n">>)
    /\ tb_pc' = "done"
    /\ UNCHANGED <<table, pp_vars, rf_vars, ex_vars, md_vars, et_vars, rr_vars, jp_vars, tl_vars, pv_vars, fq_vars>>

NextTable == RenderTable

SpecTable == InitTable /\ [][NextTable]_vars

(***************************************************************************)
(* Claims about render_table_markdown                                      *)
(***************************************************************************)
\* s cut at every occurrence of sep, read from the left.
RECURSIVE SplitOnSeq(_, _)
SplitOnSeq(s, sep) ==
    LET n == Len(sep)
        hits == {k \in 1..(Len(s) - n + 1) : SubSeq(s, k, k + n - 1) = sep}
    IN  IF hits = {} THEN <<s>>
        ELSE LET k == CHOOSE x \in hits : \A y \in hits : x <= y
             IN  <<SubSeq(s, 1, k - 1)>>
                 \o SplitOnSeq(SubSeq(s, k + n, Len(s)), sep)

\* The lines of the rendered text.
RenderedLines == IF table_md = <<>> THEN <<>> ELSE SplitOnSeq(table_md, <<"\n">>)

\* A line of the form "| c1 | c2 | ... |".
IsPipeLine(l) ==
    /\ Len(l) >= 4
    /\ SubSeq(l, 1, 2) = <<"|", " ">>
    /\ SubSeq(l, Len(l) - 1, Len(l)) = <<" ", "|">>

\* The cells of a pipe-delimited line.
CellsOfLine(l) == SplitOnSeq(SubSeq(l, 3, Len(l) - 2), <<" ", "|", " ">>)

\* The table has a caption element whose text is not blank.
HasCaption == table.cap.present /\ Strip(table.cap.text) # <<>>

\* C8: the rendered text consists of, in this order: the line
\* "[Table: <caption>]" iff the table has a non-empty caption; a
\* pipe-delimited line of the header cells followed at once by a separator
\* line holding exactly one "---" per header cell, iff the header list is
\* not empty; then one pipe-delimited line per retained body row, in order.
C8_TableLayout ==
    tb_pc = "done" =>
        LET ls == RenderedLines
            c == IF HasCaption THEN 1 ELSE 0
            h == IF headers # <<>> THEN 2 ELSE 0
        IN  /\ Len(ls) = c + h + Len(rows)
            /\ HasCaption =>
                  ls[1] = <<"[", "T", "a", "b", "l", "e", ":", " ">>
                          \o Strip(table.cap.text) \o <<"]">>
            /\ headers # <<>> =>
                  /\ IsPipeLine(ls[c + 1])
                  /\ CellsOfLine(ls[c + 1]) = headers
                  /\ IsPipeLine(ls[c + 2])
                  /\ CellsOfLine(ls[c + 2]) =
                        [k \in 1..Len(headers) |-> <<"-", "-", "-">>]
            /\ \A k \in 1..Len(rows) :
                  /\ IsPipeLine(ls[c + h + k])
                  /\ CellsOfLine(ls[c + h + k]) = rows[k]

\* A table rendered with a caption line, a header of two cells, its
\* separator and a body row; and one rendered without caption and header.
C8_Witness ==
    /\ tb_pc = "done"
    /\ HasCaption
    /\ Len(headers) = 2
    /\ Len(rows) >= 1
    /\ Len(RenderedLines) = 3 + Len(rows)

\* C9 as stated: the first body row is dropped exactly when there is a
\* header row and its cells equal the cells of the first body row, cell for
\* cell and in number; in every other case all body rows are kept.
C9_DropsOnlyExactDuplicate ==
    tb_pc = "done" =>
        LET all == TableRows(table.trs)
        IN  rows = IF headers # <<>> /\ all # <<>> /\ headers = all[1]
                   THEN Tail(all)
                   ELSE all

(***************************************************************************)
(* extract_chapter_with_tables_and_media(soup)                             *)
(*                                                                         *)
(* The content section is a sequence of nodes in document order; node 1 is *)
(* the section itself.  A node is an element (kind "tag") or a             *)
(* NavigableString (kind "text") and names its parent.                     *)
(***************************************************************************)
MaxNodes == 4

block_tags ==
    {"table", "figure", "figcaption", "h1", "h2", "h3", "h4", "h5", "h6",
     "p", "ul", "ol", "li", "dl", "dt", "dd", "blockquote", "pre",
     "caption", "iframe", "img", "div", "section", "article", "aside"}

high_priority_children ==
    {"table", "figure", "figcaption", "h1", "h2", "h3", "h4", "h5", "h6",
     "p", "ul", "ol", "li", "dl", "blockquote", "pre", "iframe", "img"}

container_tags == {"div", "section", "article", "aside"}

\* The elements and strings the trees are built from: a container, a
\* paragraph, an inline element, and two strings.
TreeTagNames == {"div", "p", "b"}
TreeStrings == {<<"X">>, <<"Y">>}

TagNode(name, parent) ==
    [kind |-> "tag", name |-> name, parent |-> parent, text |-> <<>>]
TextNode(text, parent) ==
    [kind |-> "text", name |-> "#text", parent |-> parent, text |-> text]

\* tag.parents, inside the section (the elements above the section are
\* never marked processed and equal no node of the section).
RECURSIVE Ancestors(_, _)
Ancestors(t, n) ==
    IF t[n].parent = 0 THEN {}
    ELSE {t[n].parent} \cup Ancestors(t, t[n].parent)

\* tag.descendants
Descendants(t, n) == {k \in 1..Len(t) : n \in Ancestors(t, k)}

\* The element or string a node can be.
NodeLabels ==
    [kind : {"tag"}, name : TreeTagNames, text : {<<>>}]
    \cup [kind : {"text"}, name : {"#text"}, text : TreeStrings]

\* The nodes above node k of the section, when node j + 1 has parent ps[j].
RECURSIVE ParentChain(_, _)
ParentChain(ps, k) ==
    IF k = 1 THEN {} ELSE {ps[k - 1]} \cup ParentChain(ps, ps[k - 1])

\* The parents of n nodes read in document order: each node goes under
\* the node read before it or under one of that node's ancestors.
DocumentOrderParents(n) ==
    {ps \in [1..n -> 1..n] :
        \A j \in 1..n : /\ ps[j] <= j
                        /\ ps[j] \in {j} \cup ParentChain(ps, j)}

\* Only elements have children.
OnlyTagsHaveChildren(ps, ls) ==
    \A j \in DOMAIN ps : ps[j] > 1 => ls[ps[j] - 1].kind = "tag"

\* The section whose node j + 1 is ls[j] under node ps[j].
SectionTree(ps, ls) ==
    <<TagNode("section", 0)>>
    \o [j \in DOMAIN ps |->
           [kind |-> ls[j].kind, name |-> ls[j].name,
            parent |-> ps[j], text |-> ls[j].text]]

\* The state on entry, for every content section of at most MaxNodes nodes
\* below the section element.
InitExtract ==
    /\ \E n \in 0..MaxNodes :
          \E ps \in DocumentOrderParents(n) :
             \E ls \in [1..n -> NodeLabels] :
                /\ OnlyTagsHaveChildren(ps, ls)
                /\ tree = SectionTree(ps, ls)
    /\ tag_pos = 0
    /\ processed_parents = {}
    /\ text_blocks = <<>>
    /\ block_src = <<>>
    /\ stray_nodes = <<>>
    /\ final_text = <<>>
    /\ ex_pc = "walk"
    /\ IdlePostprocess /\ IdleReflow /\ IdleTable /\ IdleMedia /\ IdleExtractText /\ IdleRerun /\ IdleJobProcessor /\ IdleTokenLimit /\ IdleVectors /\ IdleFaq

\* The ids in S as a sequence in document order, from id k on.
RECURSIVE InOrder(_, _, _)
InOrder(S, k, last) ==
    IF k > last THEN <<>>
    ELSE (IF k \in S THEN <<k>> ELSE <<>>) \o InOrder(S, k + 1, last)

\* tag.contents
Children(t, n) == InOrder({k \in 1..Len(t) : t[k].parent = n}, 1, Len(t))

\* Tag.__eq__ and str.__eq__ of the parser library: two elements are equal
\* when they have the same name and equal contents, two strings when they
\* have the same text.  Membership in a set or in a generator of elements
\* goes by this equality.
RECURSIVE NodeEq(_, _, _)
NodeEq(t, a, b) ==
    \/ a = b
    \/ /\ t[a].kind = t[b].kind
       /\ t[a].name = t[b].name
       /\ t[a].text = t[b].text
       /\ LET ca == Children(t, a)
              cb == Children(t, b)
          IN  /\ Len(ca) = Len(cb)
              /\ \A k \in 1..Len(ca) : NodeEq(t, ca[k], cb[k])

\* x in S, for a set or generator S of nodes
NodeIn(t, x, S) == \E y \in S : NodeEq(t, x, y)

FindAllBlockTagsReversed(t) ==
    LET ids == InOrder({k \in 2..Len(t) :
                           t[k].kind = "tag" /\ t[k].name \in block_tags},
                       2, Len(t))
    IN  [k \in 1..Len(ids) |-> ids[Len(ids) + 1 - k]]

\* section.find_all(block_tags, recursive=True)
FindAllBlockTags(t) ==
    InOrder({k \in 2..Len(t) : t[k].kind = "tag" /\ t[k].name \in block_tags},
            2, Len(t))

\* The strings get_text() of an element collects, in document order: the
\* strings below it that do not stand in a script or style element and are
\* not blank, each stripped.
TextStrings(t, n) ==
    LET ids == InOrder({k \in Descendants(t, n) :
                           /\ t[k].kind = "text"
                           /\ t[t[k].parent].name \notin {"script", "style"}
                           /\ Strip(t[k].text) # <<>>},
                       1, Len(t))
    IN  [k \in 1..Len(ids) |-> Strip(t[ids[k]].text)]

\* tag.get_text(sep, strip=True)
get_text(t, n, sep) == JoinWith(TextStrings(t, n), sep)

\* any(parent in processed_parents for parent in tag.parents)
AncestorProcessed(t, n, processed) ==
    \E a \in Ancestors(t, n) : NodeIn(t, a, processed)

ContainerWithBlocksDirectChild(t, n) ==
    /\ t[n].name \in container_tags
    /\ \E k \in 1..Len(t) :
          /\ t[k].parent = n
          /\ t[k].kind = "tag"
          /\ t[k].name \in high_priority_children

\* A container that holds a high-priority element anywhere below it.
ContainerWithBlocks(t, n) ==
    /\ t[n].name \in container_tags
    /\ \E k \in Descendants(t, n) :
          t[k].kind = "tag" /\ t[k].name \in high_priority_children

\* The blocks an element adds to text_blocks, by its name.  The trees hold
\* headings, paragraphs and containers only, which all put out their text
\* joined by single spaces when it is not empty.
RenderedBlocks(t, n) ==
    LET txt == get_text(t, n, <<" ">>)
    IN  IF txt # <<>> THEN <<txt>> ELSE <<>>

\* processed_parents.add(tag): a set keeps one of several equal elements.
SetAdd(t, S, x) == IF NodeIn(t, x, S) THEN S ELSE S \cup {x}

\* One iteration of `for tag in section.find_all(block_tags)`.  block_src
\* is history: the node each block of text_blocks was rendered from.
WalkStep ==
    /\ ex_pc = "walk"
    /\ tag_pos < Len(FindAllBlockTags(tree))
    /\ LET tag == FindAllBlockTags(tree)[tag_pos + 1]
       IN  \/ /\ AncestorProcessed(tree, tag, processed_parents)
              /\ UNCHANGED <<processed_parents, text_blocks, block_src>>
           \/ /\ ~AncestorProcessed(tree, tag, processed_parents)
              /\ ContainerWithBlocks(tree, tag)
              /\ UNCHANGED <<processed_parents, text_blocks, block_src>>
           \/ /\ ~AncestorProcessed(tree, tag, processed_parents)
              /\ ~ContainerWithBlocks(tree, tag)
              /\ text_blocks' = text_blocks \o RenderedBlocks(tree, tag)
              /\ block_src' = block_src
                     \o [k \in 1..Len(RenderedBlocks(tree, tag)) |-> tag]
              /\ processed_parents' = SetAdd(tree, processed_parents, tag)
    /\ tag_pos' = tag_pos + 1
    /\ UNCHANGED <<tree, stray_nodes, final_text, ex_pc, pp_vars, rf_vars, tb_vars, md_vars, et_vars, rr_vars, jp_vars, tl_vars, pv_vars, fq_vars>>

\* not any(parent is p or parent in p.parents for p in processed_parents)
StrayUncovered(t, parent, processed) ==
    ~\E q \in processed :
        parent = q \/ NodeIn(t, parent, Ancestors(t, q))

\* The strings of `for node in section.descendants` that are appended to
\* stray_texts, as node ids in document order.
StrayNodes(t, processed) ==
    InOrder({k \in 2..Len(t) :
                /\ t[k].kind = "text"
                /\ t[t[k].parent].name \notin {"script", "style"}
                /\ Strip(t[k].text) # <<>>
                /\ StrayUncovered(t, t[k].parent, processed)},
            2, Len(t))

\* list(dict.fromkeys(texts)): the first occurrence of each text, in order
RECURSIVE FromKeys(_)
FromKeys(texts) ==
    IF texts = <<>> THEN <<>>
    ELSE LET front == FromKeys(SubSeq(texts, 1, Len(texts) - 1))
             last == texts[Len(texts)]
         IN  IF \E k \in 1..Len(front) : front[k] = last
             THEN front ELSE Append(front, last)

\* The block of stray texts, if there is any.
StrayBlocks(t, ids) ==
    LET joined == JoinWith(FromKeys([k \in 1..Len(ids) |-> Strip(t[ids[k]].text)]),
                           <<" ">>)
    IN  IF ids # <<>> /\ Strip(joined) # <<>> THEN <<Strip(joined)>> ELSE <<>>

\* re.sub(r'[ \t]+', ' ', s)
RECURSIVE CollapseBlanks(_)
CollapseBlanks(s) ==
    IF s = <<>> THEN <<>>
    ELSE IF s[1] \in {" ", "\t"}
         THEN IF Len(s) > 1 /\ s[2] \in {" ", "\t"}
              THEN CollapseBlanks(Tail(s))
              ELSE <<" ">> \o CollapseBlanks(Tail(s))
         ELSE <<s[1]>> \o CollapseBlanks(Tail(s))

\* The length of the run of whitespace s starts with.
RECURSIVE SpaceRun(_)
SpaceRun(s) == IF s # <<>> /\ IsSpace(s[1]) THEN 1 + SpaceRun(Tail(s)) ELSE 0

\* re.sub(r'\s+\n', '\n', s): at a run of whitespace, the longest stretch of
\* one or more whitespace characters that is followed by a newline becomes
\* that newline.
RECURSIVE SubSpaceNewline(_)
SubSpaceNewline(s) ==
    IF s = <<>> THEN <<>>
    ELSE LET run == SpaceRun(s)
             nl == {j \in 2..run : s[j] = "\n"}
         IN  IF nl # {}
             THEN LET j == CHOOSE x \in nl : \A y \in nl : y <= x
                  IN  <<"\n">> \o SubSpaceNewline(SubSeq(s, j + 1, Len(s)))
             ELSE <<s[1]>> \o SubSpaceNewline(Tail(s))

\* The length of the run of newlines s starts with.
RECURSIVE NewlineRun(_)
NewlineRun(s) == IF s # <<>> /\ s[1] = "\n" THEN 1 + NewlineRun(Tail(s)) ELSE 0

\* re.sub(r'\n{3,}', '\n\n', s)
RECURSIVE CollapseNewlines(_)
CollapseNewlines(s) ==
    IF s = <<>> THEN <<>>
    ELSE LET run == NewlineRun(s)
         IN  IF run >= 3
             THEN <<"\n", "\n">> \o CollapseNewlines(SubSeq(s, run + 1, Len(s)))
             ELSE <<s[1]>> \o CollapseNewlines(Tail(s))

CleanBlockNoStrip(b) == CollapseNewlines(SubSpaceNewline(CollapseBlanks(b)))

\* The cleanup of one block.
CleanBlock(b) == Strip(CollapseNewlines(SubSpaceNewline(CollapseBlanks(b))))

\* cleaned_blocks: the cleaned blocks that are not empty
RECURSIVE CleanedBlocks(_)
CleanedBlocks(bs) ==
    IF bs = <<>> THEN <<>>
    ELSE (IF CleanBlock(bs[1]) # <<>> THEN <<CleanBlock(bs[1])>> ELSE <<>>)
         \o CleanedBlocks(Tail(bs))

\* final_text
FinalText(bs) ==
    Strip(CollapseNewlines(JoinWith(CleanedBlocks(bs), <<"\n", "\n">>)))

\* After the walk: the stray strings are collected and appended as one
\* block, the blocks are cleaned and joined, the text is returned.
\* stray_nodes is history: the strings that went into the stray block.
FinishExtract ==
    /\ ex_pc = "walk"
    /\ tag_pos >= Len(FindAllBlockTags(tree))
    /\ stray_nodes' = StrayNodes(tree, processed_parents)
    /\ text_blocks' = text_blocks \o StrayBlocks(tree, stray_nodes')
    /\ block_src' = block_src
           \o [k \in 1..Len(StrayBlocks(tree, stray_nodes')) |-> 0]
    /\ final_text' = FinalText(text_blocks')
    /\ ex_pc' = "done"
    /\ UNCHANGED <<tree, tag_pos, processed_parents, pp_vars, rf_vars, tb_vars, md_vars, et_vars, rr_vars, jp_vars, tl_vars, pv_vars, fq_vars>>

NextExtract == WalkStep \/ FinishExtract

SpecExtract == InitExtract /\ [][NextExtract]_vars

\* The strings of the section that are not blank and stand outside script
\* and style elements.
BareTexts ==
    {k \in 2..Len(tree) :
        /\ tree[k].kind = "text"
        /\ tree[tree[k].parent].name \notin {"script", "style"}
        /\ Strip(tree[k].text) # <<>>}

Elems(q) == {q[k] : k \in DOMAIN q}

IsTree(labels, parents) ==
    /\ Len(tree) = Len(labels) + 1
    /\ \A k \in DOMAIN labels :
          /\ tree[k + 1].parent = parents[k]
          /\ IF tree[k + 1].kind = "tag"
             THEN tree[k + 1].name = labels[k]
             ELSE tree[k + 1].text = <<labels[k]>>

\* C5: when the extraction has returned, a block-tag node with a processed
\* ancestor was not rendered as a block of its own and none of its strings
\* was emitted a second time in the trailing block of stray texts; the
\* section <div><p>X</p></div> gives exactly the one block "X".
C5_NestedContentEmittedOnce ==
    ex_pc = "done" =>
        /\ \A n \in Elems(FindAllBlockTags(tree)) :
              Ancestors(tree, n) \cap processed_parents # {} =>
                  /\ n \notin Elems(block_src)
                  /\ Descendants(tree, n) \cap Elems(stray_nodes) = {}
        /\ IsTree(<<"div", "p", "X">>, <<1, 2, 3>>) => text_blocks = << <<"X">> >>

\* C6: when the extraction has returned, no string that lies below a
\* processed node, at any depth, is among the strings of the trailing block
\* of stray texts.
C6_CoveredTextNeverStray ==
    ex_pc = "done" =>
        \A d \in Elems(stray_nodes) :
            Ancestors(tree, d) \cap processed_parents = {}

\* C7: when the extraction has returned, every non-blank string outside
\* script and style that has no processed node among its ancestors is among
\* the strings of the trailing block of stray texts.
C7_UncoveredTextIsStray ==
    ex_pc = "done" =>
        \A k \in BareTexts :
            (\A a \in Ancestors(tree, k) : ~NodeIn(tree, a, processed_parents))
                => k \in Elems(stray_nodes)

\* `n in processed_parents`: node n is marked processed.
Marked(n, processed) == NodeIn(tree, n, processed)

\* Node n has a descendant with a higher-priority block tag.
HasHighPriorityDescendant(n) ==
    \E k \in 2..Len(tree) :
        /\ n \in Ancestors(tree, k)
        /\ tree[k].kind = "tag"
        /\ tree[k].name \in high_priority_children

C23_BlocksInDocumentOrder ==
    /\ Len(block_src) = Len(text_blocks)
    /\ \A j, k \in DOMAIN block_src :
          j < k => /\ block_src[j] # 0
                   /\ block_src[k] = 0 \/ block_src[j] < block_src[k]
    /\ \A k \in DOMAIN block_src :
          block_src[k] # 0 =>
              /\ block_src[k] \in processed_parents
                    \/ Marked(block_src[k], processed_parents)
              /\ text_blocks[k] = get_text(tree, block_src[k], <<" ">>)
    /\ \A n \in processed_parents :
          get_text(tree, n, <<" ">>) # <<>> => n \in Elems(block_src)
    /\ ex_pc = "done" => final_text = JoinWith(text_blocks, <<"\n", "\n">>)

\* Two nodes with different texts were rendered, and the text returned has
\* the text of the earlier node first.
C23_Witness ==
    /\ ex_pc = "done"
    /\ Len(block_src) = 2
    /\ block_src[1] # 0 /\ block_src[1] < block_src[2]
    /\ text_blocks[1] # text_blocks[2]
    /\ final_text = text_blocks[1] \o <<"\n", "\n">> \o text_blocks[2]

(***************************************************************************)
(* extract_media(section)                                                  *)
(*                                                                         *)
(* The section is the sequence, in document order, of its figures, of its  *)
(* images outside figures and of its links that carry an href.  An         *)
(* attribute that is absent reads as None.  Of each record the fields that *)
(* take part in a test are kept: src for images, href for files and links; *)
(* the other fields are copies of attributes.                              *)
(***************************************************************************)
MaxMedia == 3

None == "None"

\* The attributes of an <img>; data-original is read like data-src.
ImgSrcs == {None, "a.png", "b.png"}
ImgDataSrcs == {None, "a.png"}
ImgAttrs == [src : ImgSrcs, data_src : ImgDataSrcs]

\* The href attributes as they are written in the page.
Hrefs ==
    { <<"x", ".", "p", "d", "f">>,
      <<" ", "x", ".", "p", "d", "f">>,
      <<"y", ".", "P", "D", "F">>,
      <<"m", "a", "i", "l", "t", "o", ":", "z">> }

\* A figure holds no image or one; an image outside a figure; a link.
MediaElements ==
    [kind : {"figure"}, imgs : {<<>>} \cup {<<a>> : a \in [src : ImgSrcs, data_src : {None}]}]
    \cup [kind : {"img"}, attrs : ImgAttrs]
    \cup [kind : {"a"}, href : Hrefs]

MediaSections == UNION {[1..n -> MediaElements] : n \in 0..MaxMedia}

\* The elements of s that satisfy Test, as indices in document order.
RECURSIVE IndicesWhere(_, _, _)
IndicesWhere(s, K, k) ==
    IF k > Len(s) THEN <<>>
    ELSE (IF s[k].kind \in K THEN <<k>> ELSE <<>>) \o IndicesWhere(s, K, k + 1)

\* section.find_all('figure'), section.find_all('img') and
\* section.find_all('a', href=True), one after the other: the iterations of
\* the three loops as (loop, element) pairs.  find_all('img') also finds
\* the image inside a figure.
LoopItems(sec) ==
    LET fig == IndicesWhere(sec, {"figure"}, 1)
        img == SelectSeq(IndicesWhere(sec, {"figure", "img"}, 1),
                         LAMBDA k : sec[k].kind = "img" \/ sec[k].imgs # <<>>)
        anc == IndicesWhere(sec, {"a"}, 1)
    IN  [k \in 1..Len(fig) |-> [loop |-> "figure", at |-> fig[k]]]
        \o [k \in 1..Len(img) |-> [loop |-> "img", at |-> img[k]]]
        \o [k \in 1..Len(anc) |-> [loop |-> "a", at |-> anc[k]]]

\* The attributes of the image an iteration of the img loop looks at.
ImgAttrsAt(sec, k) ==
    IF sec[k].kind = "img" THEN sec[k].attrs ELSE sec[k].imgs[1]

\* img.get('src') if img else None, for img = fig.find('img')
FigureSrc(fig) == IF fig.imgs # <<>> THEN fig.imgs[1].src ELSE None

\* img.get('src') or img.get('data-src') or img.get('data-original')
ImgSrc(attrs) == IF attrs.src # None THEN attrs.src ELSE attrs.data_src

\* any(x.get('src') == src for x in media['images'])
ImageSeen(src, imgs) == \E k \in 1..Len(imgs) : imgs[k].src = src

LinkSeenNever(href, lks) == FALSE

\* any(x['href'] == href for x in media['links'])
LinkSeen(href, lks) == \E k \in 1..Len(lks) : lks[k].href = href

\* str.lower()
LowerChar(c) ==
    CASE c = "A" -> "a" []
        c = "B" -> "b" []
        c = "C" -> "c" []
        c = "D" -> "d" []
        c = "E" -> "e" []
        c = "F" -> "f" []
        c = "G" -> "g" []
        c = "H" -> "h" []
        c = "I" -> "i" []
        c = "J" -> "j" []
        c = "K" -> "k" []
        c = "L" -> "l" []
        c = "M" -> "m" []
        c = "N" -> "n" []
        c = "O" -> "o" []
        c = "P" -> "p" []
        c = "Q" -> "q" []
        c = "R" -> "r" []
        c = "S" -> "s" []
        c = "T" -> "t" []
        c = "U" -> "u" []
        c = "V" -> "v" []
        c = "W" -> "w" []
        c = "X" -> "x" []
        c = "Y" -> "y" []
        c = "Z" -> "z" []
        OTHER -> c
Lower(s) == [k \in 1..Len(s) |-> LowerChar(s[k])]

\* s.endswith(suffix)
EndsWith(s, suffix) ==
    /\ Len(s) >= Len(suffix)
    /\ SubSeq(s, Len(s) - Len(suffix) + 1, Len(s)) = suffix

file_extensions ==
    { <<".", "p", "d", "f">>,
      <<".", "d", "o", "c">>,
      <<".", "d", "o", "c", "x">>,
      <<".", "x", "l", "s">>,
      <<".", "x", "l", "s", "x">>,
      <<".", "z", "i", "p">>,
      <<".", "r", "a", "r">>,
      <<".", "p", "p", "t">>,
      <<".", "p", "p", "t", "x">>,
      <<".", "e", "p", "u", "b">>,
      <<".", "t", "x", "t">> }

\* any(href.lower().endswith(ext) for ext in file_extensions)
IsFileHref(href) == \E ext \in file_extensions : EndsWith(Lower(href), ext)

InitMedia ==
    /\ media_section \in MediaSections
    /\ md_i = 0
    /\ images = <<>>
    /\ files = <<>>
    /\ links = <<>>
    /\ md_pc = "scan"
    /\ IdlePostprocess /\ IdleReflow /\ IdleTable /\ IdleExtract /\ IdleExtractText /\ IdleRerun /\ IdleJobProcessor /\ IdleTokenLimit /\ IdleVectors /\ IdleFaq

\* One iteration of `for fig in section.find_all('figure')`.
FigureStep ==
    /\ md_pc = "scan"
    /\ md_i < Len(LoopItems(media_section))
    /\ LET item == LoopItems(media_section)[md_i + 1]
       IN  /\ item.loop = "figure"
           /\ images' = Append(images, [src |-> FigureSrc(media_section[item.at])])
    /\ md_i' = md_i + 1
    /\ UNCHANGED <<media_section, files, links, md_pc,
                   pp_vars, rf_vars, tb_vars, ex_vars, et_vars, rr_vars, jp_vars, tl_vars, pv_vars, fq_vars>>

\* One iteration of `for img in section.find_all('img')`.
ImgStep ==
    /\ md_pc = "scan"
    /\ md_i < Len(LoopItems(media_section))
    /\ LET item == LoopItems(media_section)[md_i + 1]
           src == ImgSrc(ImgAttrsAt(media_section, item.at))
       IN  /\ item.loop = "img"
           /\ images' = IF src # None /\ ~ImageSeen(src, images)
                         THEN Append(images, [src |-> src])
                         ELSE images
    /\ md_i' = md_i + 1
    /\ UNCHANGED <<media_section, files, links, md_pc,
                   pp_vars, rf_vars, tb_vars, ex_vars, et_vars, rr_vars, jp_vars, tl_vars, pv_vars, fq_vars>>

\* One iteration of `for a in section.find_all('a', href=True)`.
LinkStep ==
    /\ md_pc = "scan"
    /\ md_i < Len(LoopItems(media_section))
    /\ LET item == LoopItems(media_section)[md_i + 1]
           href == Strip(media_section[item.at].href)
       IN  /\ item.loop = "a"
           /\ files' = IF IsFileHref(href)
                        THEN Append(files, [href |-> href])
                        ELSE files
           /\ links' = IF ~LinkSeen(href, links)
                        THEN Append(links, [href |-> href])
                        ELSE links
    /\ md_i' = md_i + 1
    /\ UNCHANGED <<media_section, images, md_pc,
                   pp_vars, rf_vars, tb_vars, ex_vars, et_vars, rr_vars, jp_vars, tl_vars, pv_vars, fq_vars>>

\* return media
MediaReturn ==
    /\ md_pc = "scan"
    /\ md_i >= Len(LoopItems(media_section))
    /\ md_pc' = "done"
    /\ UNCHANGED <<media_section, md_i, images, files, links,
                   pp_vars, rf_vars, tb_vars, ex_vars, et_vars, rr_vars, jp_vars, tl_vars, pv_vars, fq_vars>>

NextMedia == FigureStep \/ ImgStep \/ LinkStep \/ MediaReturn

SpecMedia == InitMedia /\ [][NextMedia]_vars

(***************************************************************************)
(* Claims about extract_media                                              *)
(***************************************************************************)
\* C12: when extract_media has returned, no two records of the images list
\* have the same src, whether they come from figures, from images outside
\* figures, or from both.
C12_ImagesUniqueBySrc ==
    md_pc = "done" =>
        \A j, k \in 1..Len(images) : images[j].src = images[k].src => j = k

\* The href attributes of the links of the section, in document order.
AnchorHrefs ==
    LET anc == IndicesWhere(media_section, {"a"}, 1)
    IN  [k \in 1..Len(anc) |-> media_section[anc[k]].href]

LinkHrefs == [k \in 1..Len(links) |-> links[k].href]

StripAll(hs) == [k \in 1..Len(hs) |-> Strip(hs[k])]

FilesAreLinks ==
    \A k \in 1..Len(files) : \E j \in 1..Len(links) : links[j].href = files[k].href

\* C13 as stated: when extract_media has returned, the links list holds one
\* record for each distinct href attribute of the links of the section, in
\* order of first occurrence, and every record of the files list has an
\* href that occurs in the links list.
C13_OneLinkPerHref ==
    md_pc = "done" =>
        /\ LinkHrefs = StripAll(FromKeys(AnchorHrefs))
        /\ FilesAreLinks

\* C13: when extract_media has returned, the links list holds one record
\* for each distinct href attribute after surrounding whitespace is trimmed,
\* in order of first occurrence, and every record of the files list has an
\* href that occurs in the links list.
C13_OneLinkPerTrimmedHref ==
    md_pc = "done" =>
        /\ LinkHrefs = FromKeys(StripAll(AnchorHrefs))
        /\ FilesAreLinks

\* Three links, two of them to the same file, came out as two link records
\* and two file records.
C13_Witness ==
    /\ md_pc = "done"
    /\ Len(AnchorHrefs) = 3
    /\ Len(links) = 2
    /\ Len(files) = 2
    /\ files[1].href = files[2].href

(***************************************************************************)
(* process_chapter(chapter_url, base_url, book_metadata) and the chapter   *)
(* loop of extract_text(start_url, combined_metadata, s3_bucket)           *)
(*                                                                         *)
(* A chapter of the table of contents is given by what its page does:      *)
(* whether fetching it raises, whether the extraction raises, whether it   *)
(* has a <section> element, an element of class chapter or neither, the    *)
(* text the walk of the section yields and the src of its image records.   *)
(***************************************************************************)
MaxChapters == 3

ChapterPages ==
    { [fetch |-> "error", parse |-> "ok", section |-> "section",
       text |-> <<"X">>, images |-> <<>>],
      [fetch |-> "ok", parse |-> "error", section |-> "section",
       text |-> <<"X">>, images |-> <<>>],
      [fetch |-> "ok", parse |-> "ok", section |-> "none",
       text |-> <<"X">>, images |-> <<>>],
      [fetch |-> "ok", parse |-> "ok", section |-> "section",
       text |-> <<>>, images |-> <<"a.png">>],
      [fetch |-> "ok", parse |-> "ok", section |-> "section",
       text |-> <<"X">>, images |-> <<>>],
      [fetch |-> "ok", parse |-> "ok", section |-> "chapter_class",
       text |-> <<"Y">>, images |-> <<None, "a.png">>] }

ChapterLists == UNION {[1..n -> ChapterPages] : n \in 0..MaxChapters}

\* What a call gives: an exception, or a value.
Raised == [raised |-> TRUE, value |-> <<>>]
Returned(v) == [raised |-> FALSE, value |-> v]

\* extract_chapter_with_tables_and_media(soup), as a pair (text, media):
\* ("", []) when the page has no content section, else the text of the
\* section and its media.
\* soup.find('section') or soup.find(class_='chapter')
FindSection(page) == page.section \in {"section", "chapter_class"}

extract_chapter_with_tables_and_mediaNoSectionTest(page) ==
    IF page.parse = "error" \/ ~FindSection(page) THEN Raised
    ELSE Returned([text |-> page.text, media |-> [images |-> page.images]])

extract_chapter_with_tables_and_media(page) ==
    IF page.parse = "error" THEN Raised
    ELSE IF ~FindSection(page) THEN Returned([text |-> <<>>, media |-> <<>>])
    ELSE Returned([text |-> page.text, media |-> [images |-> page.images]])

process_chapterNoExcept(page) ==
    IF page.fetch = "error" THEN Raised
    ELSE extract_chapter_with_tables_and_media(page)

\* process_chapter: None is the empty sequence, a returned dict a sequence
\* of one record.  Every exception of the body is caught and gives None.
process_chapter(page) ==
    IF page.fetch = "error" THEN Returned(<<>>)
    ELSE LET r == extract_chapter_with_tables_and_media(page)
         IN  IF r.raised THEN Returned(<<>>)
             ELSE IF Strip(r.value.text) = <<>> THEN Returned(<<>>)
             ELSE Returned(<< [text |-> r.value.text, media |-> r.value.media] >>)

\* The records added to all_image_data for the images of chapter n.
RECURSIVE ImageData(_, _)
ImageData(imgs, n) ==
    IF imgs = <<>> THEN <<>>
    ELSE (IF imgs[1] # None
          THEN << [url |-> imgs[1], chapter_number |-> n] >> ELSE <<>>)
         \o ImageData(Tail(imgs), n)

InitExtractText ==
    /\ chapters \in ChapterLists
    /\ ch_i = 0
    /\ chapter_returns = <<>>
    /\ s3_objects = <<>>
    /\ all_image_data = <<>>
    /\ extracted_chapters = <<>>
    /\ et_pc = "loop"
    /\ IdlePostprocess /\ IdleReflow /\ IdleTable /\ IdleExtract /\ IdleMedia /\ IdleRerun /\ IdleJobProcessor /\ IdleTokenLimit /\ IdleVectors /\ IdleFaq

\* One iteration of `for i, chapter in enumerate(chapters, 1)`; ch_i + 1
\* is i.  chapter_returns is history: what process_chapter gave for each
\* chapter.  upload_to_s3 re-raises when the upload fails, and an exception
\* leaves extract_text.
ChapterStep ==
    /\ et_pc = "loop"
    /\ ch_i < Len(chapters)
    /\ LET n == ch_i + 1
           r == process_chapter(chapters[n])
       IN  /\ chapter_returns' = Append(chapter_returns, r)
           /\ IF r.raised
              THEN /\ et_pc' = "raised"
                   /\ UNCHANGED <<s3_objects, all_image_data, extracted_chapters>>
              ELSE IF r.value = <<>>
              THEN /\ et_pc' = "loop"
                   /\ UNCHANGED <<s3_objects, all_image_data, extracted_chapters>>
              ELSE \E upload_ok \in BOOLEAN :
                      IF upload_ok
                      THEN /\ s3_objects' =
                                Append(s3_objects,
                                       [chapter |-> n, body |-> r.value[1].text])
                           /\ all_image_data' = all_image_data
                                \o ImageData(r.value[1].media.images, n)
                           /\ extracted_chapters' =
                                Append(extracted_chapters,
                                       [s3_key |-> n,
                                        chapter_number |-> n,
                                        text_length |-> Len(r.value[1].text),
                                        media |-> r.value[1].media])
                           /\ et_pc' = "loop"
                      ELSE /\ et_pc' = "raised"
                           /\ UNCHANGED <<s3_objects, all_image_data,
                                          extracted_chapters>>
    /\ ch_i' = ch_i + 1
    /\ UNCHANGED <<chapters, pp_vars, rf_vars, tb_vars, ex_vars, md_vars, rr_vars, jp_vars, tl_vars, pv_vars, fq_vars>>

\* return extracted_chapters, all_image_data
ExtractTextReturn ==
    /\ et_pc = "loop"
    /\ ch_i >= Len(chapters)
    /\ et_pc' = "done"
    /\ UNCHANGED <<chapters, ch_i, chapter_returns, s3_objects, all_image_data,
                   extracted_chapters, pp_vars, rf_vars, tb_vars, ex_vars, md_vars, rr_vars, jp_vars, tl_vars, pv_vars, fq_vars>>

\* The largest number of chunks the splitter and postprocess_documents
\* make of one chapter.
MaxChunks == 2

\* The metadata process_chapters_to_vectors gives every chunk of the
\* chapter at position pos (1-based) of extracted_chapters.
ChunkMetadata(pos, chapter) ==
    [s3_key |-> chapter.s3_key, chapter_number |-> pos]

\* One iteration of `for i, chapter in enumerate(extracted_chapters, 1)` of
\* process_chapters_to_vectors, called with the list extract_text returned;
\* vec_i + 1 is i.  The S3 object of a chapter is the one stored under its
\* s3_key (its body is never blank); an exception in the body, such as a
\* failed get_object, is logged and the loop goes on.
VectorChapterStep ==
    /\ et_pc = "done"
    /\ pv_pc = "idle"
    /\ vec_i < Len(extracted_chapters)
    /\ LET i_ == vec_i + 1
           chapter == extracted_chapters[i_]
       IN  \E get_object_ok \in BOOLEAN, n_chunks \in 0..MaxChunks :
              IF get_object_ok
              THEN vector_store' = vector_store
                      \o [k \in 1..n_chunks |-> ChunkMetadata(i_, chapter)]
              ELSE vector_store' = vector_store
    /\ vec_i' = vec_i + 1
    /\ UNCHANGED <<pv_pc, et_vars,
                   pp_vars, rf_vars, tb_vars, ex_vars, md_vars, rr_vars, jp_vars, tl_vars, fq_vars>>

\* The loop of process_chapters_to_vectors is over.
VectorReturn ==
    /\ et_pc = "done"
    /\ pv_pc = "idle"
    /\ vec_i >= Len(extracted_chapters)
    /\ pv_pc' = "done"
    /\ UNCHANGED <<vec_i, vector_store, et_vars,
                   pp_vars, rf_vars, tb_vars, ex_vars, md_vars, rr_vars, jp_vars, tl_vars, fq_vars>>

NextExtractText ==
    ChapterStep \/ ExtractTextReturn \/ VectorChapterStep \/ VectorReturn

SpecExtractText == InitExtractText /\ [][NextExtractText]_vars

(***************************************************************************)
(* Claims about process_chapter and extract_text                           *)
(***************************************************************************)
\* A chapter whose page cannot be fetched or parsed, or has no text.
FailedChapter(page) ==
    \/ page.fetch = "error"
    \/ page.parse = "error"
    \/ ~FindSection(page)
    \/ Strip(page.text) = <<>>

\* C14: process_chapter never raises and returns None for a chapter whose
\* page cannot be fetched or parsed or has no text; after such a chapter
\* extract_text goes on with the next one, having uploaded nothing for it;
\* extract_text is only left early by a failed upload of a chapter that
\* was processed, and when it returns it has attempted every chapter and
\* uploaded exactly those that did not fail.
C14_FailedChapterIsSkipped ==
    /\ [](\A k \in 1..Len(chapter_returns) :
             /\ ~chapter_returns[k].raised
             /\ FailedChapter(chapters[k]) <=> chapter_returns[k].value = <<>>)
    /\ [][ ( /\ et_pc = "loop"
             /\ ch_i < Len(chapters)
             /\ FailedChapter(chapters[ch_i + 1]) )
           => /\ et_pc' = "loop"
              /\ ch_i' = ch_i + 1
              /\ UNCHANGED <<s3_objects, extracted_chapters>> ]_vars
    /\ [](et_pc = "raised" => ~FailedChapter(chapters[ch_i]))
    /\ [](et_pc = "done" =>
             /\ Len(chapter_returns) = Len(chapters)
             /\ \A k \in 1..Len(chapters) :
                   ~FailedChapter(chapters[k]) <=>
                       \E j \in 1..Len(s3_objects) : s3_objects[j].chapter = k)

\* A chapter was uploaded after a chapter that failed.
C14_Witness ==
    /\ et_pc = "done"
    /\ Len(chapters) = 3
    /\ chapters[1].fetch = "error"
    /\ chapters[2].parse = "error"
    /\ Len(s3_objects) = 1
    /\ s3_objects[1].chapter = 3
\* A page that was fetched and has neither a <section> element nor an
\* element of class chapter.
NoContentSection(page) ==
    page.fetch = "ok" /\ page.parse = "ok" /\ page.section = "none"

\* C15: for a page without content section the extraction returns the
\* empty text and the empty media list without raising, and process_chapter
\* returned None for the chapter.
C15_NoSectionGivesNone ==
    \A k \in 1..Len(chapter_returns) :
        NoContentSection(chapters[k]) =>
            /\ extract_chapter_with_tables_and_media(chapters[k])
                  = Returned([text |-> <<>>, media |-> <<>>])
            /\ chapter_returns[k] = Returned(<<>>)

\* A chapter without content section was attempted and extract_text went
\* on to upload the chapter after it.
C15_Witness ==
    /\ et_pc = "done"
    /\ Len(chapters) = 2
    /\ NoContentSection(chapters[1])
    /\ chapter_returns[1] = Returned(<<>>)
    /\ Len(extracted_chapters) = 1
    /\ extracted_chapters[1].chapter_number = 2

\* C28: the chapter_number in the metadata of every chunk in the vector
\* store is the chapter_number extract_text recorded for the chapter the
\* chunk belongs to (the chapter with the chunk's s3_key), that is the
\* chapter's position in the table of contents, also when earlier chapters
\* were skipped.
C28_ChunkChapterNumberIsTocOrdinal ==
    \A k \in 1..Len(vector_store) :
        \E j \in 1..Len(extracted_chapters) :
            /\ extracted_chapters[j].s3_key = vector_store[k].s3_key
            /\ extracted_chapters[j].chapter_number = vector_store[k].chapter_number

(***************************************************************************)
(* Two calls on the same tree                                              *)
(*                                                                         *)
(* extract_chapter_with_tables_and_media(soup) calls extract_media on the  *)
(* section and then walks it.  A caller that calls again passes the tree   *)
(* as the first call left it; the locals of the function are new in every  *)
(* call.                                                                   *)
(***************************************************************************)
\* processed_parents = set()
FreshProcessedParents == {}

StaleTextBlocks == text_blocks

\* text_blocks = []
FreshTextBlocks == <<>>

\* The walk has returned; it is called again on the same tree.
CallExtractAgain ==
    /\ ex_pc = "done"
    /\ call_no = 1
    /\ first_return' = [text |-> final_text, media |-> <<>>]
    /\ call_no' = 2
    /\ tag_pos' = 0
    /\ processed_parents' = FreshProcessedParents
    /\ text_blocks' = FreshTextBlocks
    /\ block_src' = <<>>
    /\ stray_nodes' = <<>>
    /\ final_text' = <<>>
    /\ ex_pc' = "walk"
    /\ UNCHANGED <<tree, pp_vars, rf_vars, tb_vars, md_vars, et_vars, jp_vars, tl_vars, pv_vars, fq_vars>>

\* extract_media has returned; it is called again on the same section.
CallMediaAgain ==
    /\ md_pc = "done"
    /\ call_no = 1
    /\ first_return' = [text |-> <<>>, media |-> <<images, files, links>>]
    /\ call_no' = 2
    /\ md_i' = 0
    /\ images' = <<>>
    /\ files' = <<>>
    /\ links' = <<>>
    /\ md_pc' = "scan"
    /\ UNCHANGED <<media_section, pp_vars, rf_vars, tb_vars, ex_vars, et_vars, jp_vars, tl_vars, pv_vars, fq_vars>>

InitTwoCalls == InitExtract \/ InitMedia

NextTwoCalls ==
    \/ WalkStep \/ FinishExtract \/ CallExtractAgain
    \/ FigureStep \/ ImgStep \/ LinkStep \/ MediaReturn \/ CallMediaAgain

SpecTwoCalls == InitTwoCalls /\ [][NextTwoCalls]_vars

MaxBlockLen == 4

BlockChars == {"a", " ", "\t", "\n"}

Blocks == UNION {[1..n -> BlockChars] : n \in 1..MaxBlockLen}

BlockLists ==
    {<<>>} \cup {<<b>> : b \in Blocks}
    \cup {<<b, c>> : b \in Blocks, c \in {<<"a">>, <<"\n", "a", "\n">>, <<" ">>}}
    \cup {<<c, b>> : b \in Blocks, c \in {<<"a">>, <<"\n", "a", "\n">>, <<" ">>}}

InitCleanup ==
    /\ tree = <<>>
    /\ tag_pos = 0
    /\ processed_parents = {}
    /\ text_blocks \in BlockLists
    /\ block_src = <<>>
    /\ stray_nodes = <<>>
    /\ final_text = <<>>
    /\ ex_pc = "cleanup"
    /\ IdlePostprocess /\ IdleReflow /\ IdleTable /\ IdleMedia /\ IdleExtractText /\ IdleRerun /\ IdleJobProcessor /\ IdleTokenLimit /\ IdleVectors /\ IdleFaq

\* The cleanup loop, the join and the return.
CleanupAndJoin ==
    /\ ex_pc = "cleanup"
    /\ final_text' = FinalText(text_blocks)
    /\ ex_pc' = "returned"
    /\ UNCHANGED <<tree, tag_pos, processed_parents, text_blocks, block_src,
                   stray_nodes, pp_vars, rf_vars, tb_vars, md_vars, et_vars, rr_vars, jp_vars, tl_vars, pv_vars, fq_vars>>

NextCleanup == CleanupAndJoin

SpecCleanup == InitCleanup /\ [][NextCleanup]_vars

\* s contains three newlines in a row.
HasThreeNewlines(s) ==
    \E k \in 1..Len(s) - 2 : s[k] = "\n" /\ s[k + 1] = "\n" /\ s[k + 2] = "\n"

\* C18: the returned text is the join by a blank line of blocks that are
\* not empty and have no whitespace at either end; it has no whitespace at
\* either end and nowhere three newlines in a row.
C18_FinalTextNormalForm ==
    ex_pc = "returned" =>
        LET joined == CleanedBlocks(text_blocks)
        IN  /\ \A k \in 1..Len(joined) :
                  joined[k] # <<>> /\ Strip(joined[k]) = joined[k]
            /\ final_text = JoinWith(joined, <<"\n", "\n">>)
            /\ Strip(final_text) = final_text
            /\ ~HasThreeNewlines(final_text)

\* Two blocks were joined, one of which had whitespace around it.
C18_Witness ==
    /\ ex_pc = "returned"
    /\ Len(text_blocks) = 2
    /\ Len(CleanedBlocks(text_blocks)) = 2
    /\ text_blocks[1] # CleanBlock(text_blocks[1])
    /\ final_text # <<>>

\* The lengths of the runs of newlines of s, in order.
RECURSIVE NewlineRuns(_)
NewlineRuns(s) ==
    IF s = <<>> THEN <<>>
    ELSE LET n == NewlineRun(s)
         IN  IF n > 0
             THEN <<n>> \o NewlineRuns(SubSeq(s, n + 1, Len(s)))
             ELSE NewlineRuns(Tail(s))

\* C24: the cleanup of a block keeps its newlines.  When the text of a
\* single block has been returned, a run of one or two newlines inside the
\* block is a run of the same length in the text, a run of three or more is
\* a run of two, and the text has no two spaces or tabs in a row.
C24_CleanupPreservesNewlines ==
    (ex_pc = "returned" /\ Len(text_blocks) = 1) =>
        LET b == Strip(text_blocks[1])
            runs == NewlineRuns(b)
            c == final_text
        IN  /\ NewlineRuns(c) =
                  [j \in DOMAIN runs |-> IF runs[j] >= 3 THEN 2 ELSE runs[j]]
            /\ \A j \in 1..(Len(c) - 1) :
                  ~(c[j] \in {" ", "\t"} /\ c[j + 1] \in {" ", "\t"})

(***************************************************************************)
(* mediaJobProcessor: lambda_handler(event, context)                       *)
(*                                                                         *)
(* Invocations of the handler run side by side, each with its own batch of *)
(* SQS records and its own running_count.  A Glue job run is STARTING      *)
(* after start_job_run, then RUNNING, then over.                           *)
(***************************************************************************)
MAX_CONCURRENT_GLUE_JOBS == 2
MaxBatch == 3
MaxActiveRuns == 5

\* The invocations that can be in progress at the same time.
Invocations == {1, 2}

\* What a record of the batch is: a supported media type, another media
\* type, or a body without media_url or media_type.
RecordKinds == {"supported", "unsupported", "invalid"}

InitJobProcessor ==
    /\ jp_pc = [h \in Invocations |-> "idle"]
    /\ jp_records = [h \in Invocations |-> 0]
    /\ running_count = [h \in Invocations |-> 0]
    /\ glue_starting = 0
    /\ glue_running = 0
    /\ IdlePostprocess /\ IdleReflow /\ IdleTable /\ IdleExtract /\ IdleMedia /\ IdleExtractText /\ IdleRerun /\ IdleTokenLimit /\ IdleVectors /\ IdleFaq

\* get_running_job_count(job_name): the runs in state RUNNING, or 0 when
\* get_job_runs raises.
get_running_job_count(get_job_runs_ok) ==
    IF get_job_runs_ok THEN glue_running ELSE 0

\* The start of an invocation with a batch of n records, up to the loop:
\* the count is read once, and the invocation raises when it has reached
\* the maximum.
LambdaStart(h) ==
    /\ jp_pc[h] \in {"idle", "returned", "raised"}
    /\ \E n \in 0..MaxBatch, get_job_runs_ok \in BOOLEAN :
          LET count == get_running_job_count(get_job_runs_ok)
          IN  IF count >= MAX_CONCURRENT_GLUE_JOBS
              THEN /\ jp_pc' = [jp_pc EXCEPT ![h] = "raised"]
                   /\ UNCHANGED <<jp_records, running_count>>
              ELSE /\ jp_pc' = [jp_pc EXCEPT ![h] = "loop"]
                   /\ jp_records' = [jp_records EXCEPT ![h] = n]
                   /\ running_count' = [running_count EXCEPT ![h] = count]
    /\ UNCHANGED <<glue_starting, glue_running,
                   pp_vars, rf_vars, tb_vars, ex_vars, md_vars, et_vars, rr_vars, tl_vars, pv_vars, fq_vars>>

\* One iteration of `for record in event.get('Records', [])`.
ProcessRecord(h) ==
    /\ jp_pc[h] = "loop"
    /\ jp_records[h] > 0
    /\ \E kind \in RecordKinds :
          \/ /\ kind = "invalid"
             /\ jp_pc' = [jp_pc EXCEPT ![h] = "raised"]
             /\ UNCHANGED <<jp_records, running_count, glue_starting>>
          \/ /\ kind = "unsupported"
             /\ jp_records' = [jp_records EXCEPT ![h] = @ - 1]
             /\ UNCHANGED <<jp_pc, running_count, glue_starting>>
          \/ /\ kind = "supported"
             /\ glue_starting + glue_running < MaxActiveRuns
             /\ glue_starting' = glue_starting + 1
             /\ running_count' = [running_count EXCEPT ![h] = @ + 1]
             /\ jp_records' = [jp_records EXCEPT ![h] = @ - 1]
             /\ UNCHANGED jp_pc
    /\ UNCHANGED <<glue_running,
                   pp_vars, rf_vars, tb_vars, ex_vars, md_vars, et_vars, rr_vars, tl_vars, pv_vars, fq_vars>>

\* After the loop: return statusCode 200.
LambdaReturn(h) ==
    /\ jp_pc[h] = "loop"
    /\ jp_records[h] = 0
    /\ jp_pc' = [jp_pc EXCEPT ![h] = "returned"]
    /\ UNCHANGED <<jp_records, running_count, glue_starting, glue_running,
                   pp_vars, rf_vars, tb_vars, ex_vars, md_vars, et_vars, rr_vars, tl_vars, pv_vars, fq_vars>>

\* Glue: a run goes from STARTING to RUNNING.
GlueRunStarts ==
    /\ glue_starting > 0
    /\ glue_starting' = glue_starting - 1
    /\ glue_running' = glue_running + 1
    /\ UNCHANGED <<jp_pc, jp_records, running_count,
                   pp_vars, rf_vars, tb_vars, ex_vars, md_vars, et_vars, rr_vars, tl_vars, pv_vars, fq_vars>>

\* Glue: a run that was RUNNING is over.
GlueRunEnds ==
    /\ glue_running > 0
    /\ glue_running' = glue_running - 1
    /\ UNCHANGED <<jp_pc, jp_records, running_count, glue_starting,
                   pp_vars, rf_vars, tb_vars, ex_vars, md_vars, et_vars, rr_vars, tl_vars, pv_vars, fq_vars>>

NextJobProcessor ==
    \/ \E h \in Invocations : LambdaStart(h)
    \/ \E h \in Invocations : ProcessRecord(h)
    \/ \E h \in Invocations : LambdaReturn(h)
    \/ GlueRunStarts
    \/ GlueRunEnds

SpecJobProcessor == InitJobProcessor /\ [][NextJobProcessor]_vars

\* C19: at no time are more than MAX_CONCURRENT_GLUE_JOBS runs of the media
\* Glue job RUNNING.
C19_RunningJobsWithinMax == glue_running <= MAX_CONCURRENT_GLUE_JOBS

(***************************************************************************)
(* textGeneration: handler(event, context), the daily token limit          *)
(***************************************************************************)
\* The 24 hours of `needs_reset = hours_since_reset >= 24`.
ResetHours == 24

\* The value of the SSM parameter named by DAILY_TOKEN_LIMIT_PARAM, a finite
\* limit.
DailyLimit == 4
\* The largest total_tokens of one generated response.
MaxTokens == 3
\* The clock runs from 0 to MaxClock hours, in steps of ClockStep hours.
ClockStep == 12
MaxClock == 48
\* The number of generated responses that are followed.
MaxAnswered == 3

\* The POST requests of one user session that can be in progress at the same
\* time.
Requests == {1, 2}

InitTokenLimit ==
    /\ tokens_used = 0
    /\ updated_at = 0
    /\ now = 0
    /\ tl_pc = [r \in Requests |-> "idle"]
    /\ total_tokens = [r \in Requests |-> 0]
    /\ answered = <<>>
    /\ IdlePostprocess /\ IdleReflow /\ IdleTable /\ IdleExtract /\ IdleMedia /\ IdleExtractText /\ IdleRerun /\ IdleJobProcessor /\ IdleVectors /\ IdleFaq

max(a, b) == IF a >= b THEN a ELSE b

\* get_session_token_status(connection, user_session_id, ...): the usage of
\* the row, read as 0 when 24 hours have passed since updated_at; the row is
\* not modified.
get_session_token_status ==
    LET hours_since_reset == now - updated_at
        current_tokens == IF hours_since_reset >= ResetHours
                          THEN 0 ELSE tokens_used
    IN  [tokens_used |-> current_tokens,
         daily_limit |-> DailyLimit,
         remaining_tokens |-> max(0, DailyLimit - current_tokens)]

\* enforce_token_limits(...): True when the request may go on, FALSE when
\* TokenLimitError is raised.
enforce_token_limits ==
    LET token_status == get_session_token_status
    IN  ~ (token_status.remaining_tokens <= 0)

\* check_and_update_token_limit(connection, user_session_id, tokens_to_add,
\* ...): the row after the call.  The row is written only when the new count
\* does not exceed the limit.
check_and_update_token_limit(tokens_to_add) ==
    LET hours_since_reset == now - updated_at
        needs_reset == hours_since_reset >= ResetHours
        current_tokens == IF needs_reset THEN 0 ELSE tokens_used
        new_token_count == current_tokens + tokens_to_add
    IN  IF new_token_count > DailyLimit
        THEN [can_proceed |-> FALSE,
              tokens_used |-> tokens_used, updated_at |-> updated_at]
        ELSE [can_proceed |-> TRUE,
              tokens_used |-> new_token_count, updated_at |-> now]

\* handler, steps 1 to 5: a POST request of the session arrives and
\* enforce_token_limits either lets it go on or raises TokenLimitError, which
\* ends the request with an error response ("rejected").
TokenCheck(r) ==
    /\ tl_pc[r] \in {"idle", "rejected"}
    /\ Len(answered) < MaxAnswered
    /\ IF enforce_token_limits
       THEN tl_pc' = [tl_pc EXCEPT ![r] = "generate"]
       ELSE tl_pc' = [tl_pc EXCEPT ![r] = "rejected"]
    /\ UNCHANGED <<tokens_used, updated_at, now, total_tokens, answered,
                   pp_vars, rf_vars, tb_vars, ex_vars, md_vars, et_vars, rr_vars, jp_vars, pv_vars, fq_vars>>

\* handler, step 5: the answer comes from the FAQ cache, which uses no
\* tokens and skips track_usage_and_logs, or a response is generated, with a
\* token_usage of t tokens.
GenerateResponse(r) ==
    /\ tl_pc[r] = "generate"
    /\ \E from_cache \in BOOLEAN :
          IF from_cache
          THEN /\ tl_pc' = [tl_pc EXCEPT ![r] = "idle"]
               /\ UNCHANGED <<total_tokens, answered>>
          ELSE \E t \in 1..MaxTokens :
                  /\ tl_pc' = [tl_pc EXCEPT ![r] = "track"]
                  /\ total_tokens' = [total_tokens EXCEPT ![r] = t]
                  /\ answered' = Append(answered, [at |-> now, tokens |-> t])
    /\ UNCHANGED <<tokens_used, updated_at, now,
                   pp_vars, rf_vars, tb_vars, ex_vars, md_vars, et_vars, rr_vars, jp_vars, pv_vars, fq_vars>>

\* track_usage_and_logs(...): the token tracking of a generated response.
track_usage_and_logs(r) ==
    /\ tl_pc[r] = "track"
    /\ LET row == check_and_update_token_limit(total_tokens[r])
       IN  /\ tokens_used' = row.tokens_used
           /\ updated_at' = row.updated_at
    /\ tl_pc' = [tl_pc EXCEPT ![r] = "idle"]
    /\ total_tokens' = [total_tokens EXCEPT ![r] = 0]
    /\ UNCHANGED <<now, answered,
                   pp_vars, rf_vars, tb_vars, ex_vars, md_vars, et_vars, rr_vars, jp_vars, pv_vars, fq_vars>>

\* datetime.now() moves on.
ClockAdvances ==
    /\ now + ClockStep <= MaxClock
    /\ now' = now + ClockStep
    /\ UNCHANGED <<tokens_used, updated_at, tl_pc, total_tokens, answered,
                   pp_vars, rf_vars, tb_vars, ex_vars, md_vars, et_vars, rr_vars, jp_vars, pv_vars, fq_vars>>

NextTokenLimit ==
    \/ \E r \in Requests : TokenCheck(r)
    \/ \E r \in Requests : GenerateResponse(r)
    \/ \E r \in Requests : track_usage_and_logs(r)
    \/ ClockAdvances

SpecTokenLimit == InitTokenLimit /\ [][NextTokenLimit]_vars

RECURSIVE SumTokens(_)
SumTokens(s) == IF s = <<>> THEN 0 ELSE Head(s).tokens + SumTokens(Tail(s))

\* The tokens of the responses generated in the 24 hours up to now.
WindowConsumed ==
    LET InWindow(a) == now - a.at < ResetHours
    IN  SumTokens(SelectSeq(answered, InWindow))

\* C20: a request that arrives when the responses generated in the last 24
\* hours have consumed the daily limit or more is rejected with
\* TokenLimitError: it never goes on to generate a response.
C20_RejectedOnceLimitConsumed ==
    [][\A r \in Requests :
          (tl_pc[r] \in {"idle", "rejected"} /\ tl_pc'[r] = "generate")
             => WindowConsumed < DailyLimit]_vars

(***************************************************************************)
(* textGeneration: handler(event, context), the FAQ cache (faq_cache.py)   *)
(*                                                                         *)
(* The rows of faq_cache of one textbook and the handler's steps 5 to 7    *)
(* for the WebSocket requests about that textbook, one request after the   *)
(* other.  A row keeps the columns the size limit reads (id, usage_count,  *)
(* last_used_at, reported) and answer_text.  The limit of the source is    *)
(* 100 rows; the model runs with a small limit, the code being the same    *)
(* for every value of it.  A new row is not reported; a row becomes        *)
(* reported from outside these functions.  The database statements are     *)
(* taken to succeed.  A Python dict is a function from its keys, and None  *)
(* is the function with no keys (both are false in `if cached_response`).  *)
(***************************************************************************)
MAX_CACHE_SIZE == 2
\* The number of writes to faq_cache that are followed.
MaxFaqCalls == 5
\* usage_count is followed up to this value.
MaxUsage == 3

\* The answers that are generated.
Answers == {"a1", "a2"}

InitFaq ==
    /\ faq_cache = {}
    /\ next_faq_id = 1
    /\ faq_clock = 0
    /\ cached_response = <<>>
    /\ handler_result = <<>>
    /\ hd_pc = "idle"
    /\ IdlePostprocess /\ IdleReflow /\ IdleTable /\ IdleExtract /\ IdleMedia /\ IdleExtractText /\ IdleRerun /\ IdleJobProcessor /\ IdleTokenLimit /\ IdleVectors

\* ORDER BY usage_count ASC, last_used_at ASC
FaqBefore(a, b) ==
    \/ a.usage_count < b.usage_count
    \/ a.usage_count = b.usage_count /\ a.last_used_at < b.last_used_at
    \/ a.usage_count = b.usage_count /\ a.last_used_at = b.last_used_at
          /\ a.id <= b.id

\* The first n rows of S in that order (all of S when it has fewer).
RECURSIVE LeastUsed(_, _)
LeastUsed(S, n) ==
    IF n = 0 \/ S = {} THEN {}
    ELSE LET first == CHOOSE a \in S : \A b \in S : FaqBefore(a, b)
         IN  {first} \cup LeastUsed(S \ {first}, n - 1)

_maintain_cache_sizeOffByOne(entries, max_size) ==
    LET count == Cardinality(entries)
    IN  IF count > max_size + 1
        THEN entries \ LeastUsed({r \in entries : ~r.reported}, count - max_size)
        ELSE entries

\* _maintain_cache_size(textbook_id, connection, max_size): the rows after
\* the call.
_maintain_cache_size(entries, max_size) ==
    LET count == Cardinality(entries)
    IN  IF count > max_size
        THEN entries \ LeastUsed({r \in entries : ~r.reported}, count - max_size)
        ELSE entries

\* cache_faq(question, answer, textbook_id, ...): the rows after the call.  A
\* row is inserted with usage_count 1 and the size limit is applied.
cache_faq(entries, answer, faq_id, at) ==
    LET row == [id |-> faq_id, answer_text |-> answer, usage_count |-> 1,
                last_used_at |-> at, reported |-> FALSE]
    IN  _maintain_cache_size(entries \cup {row}, MAX_CACHE_SIZE)

\* _update_faq_usage(faq_id, connection): the rows after the call.
_update_faq_usage(entries, faq_id, at) ==
    {IF r.id = faq_id
     THEN [r EXCEPT !.usage_count = IF @ < MaxUsage THEN @ + 1 ELSE @,
                    !.last_used_at = at]
     ELSE r : r \in entries}

\* The dict check_faq_cache returns for the row it found.
CachedFaq(r, at) ==
    [id |-> r.id,
     question_text |-> "question_text",
     answer_text |-> r.answer_text,
     sources_used |-> <<>>,
     usage_count |-> r.usage_count + 1,
     last_used_at |-> at,
     cached_at |-> "cached_at",
     similarity |-> "similarity",
     from_cache |-> TRUE]

\* `if d:` for a dict or None
Truthy(d) == DOMAIN d # {}

\* The handler's result for a request: it returns a response or an
\* exception leaves it.
HandlerReturned(status, response, from_cache, generated, tracked) ==
    [raised |-> "", statusCode |-> status, response |-> response,
     from_cache |-> from_cache, generated |-> generated, tracked |-> tracked]

HandlerRaised(exception) ==
    [raised |-> exception, statusCode |-> 0, response |-> "",
     from_cache |-> FALSE, generated |-> FALSE, tracked |-> FALSE]

\* handle_faq_check(question, textbook_id, ...) of a WebSocket request:
\* check_faq_cache finds no row similar enough and returns None, or it
\* returns the most similar row after updating its usage, and the answer is
\* streamed.
handle_faq_check ==
    /\ hd_pc = "idle"
    /\ \/ /\ cached_response' = <<>>
          /\ UNCHANGED <<faq_cache, faq_clock>>
       \/ /\ faq_clock < MaxFaqCalls
          /\ \E hit \in faq_cache :
                /\ faq_cache' = _update_faq_usage(faq_cache, hit.id, faq_clock + 1)
                /\ cached_response' = CachedFaq(hit, faq_clock + 1)
          /\ faq_clock' = faq_clock + 1
    /\ handler_result' = <<>>
    /\ hd_pc' = "faq_checked"
    /\ UNCHANGED <<next_faq_id,
                   pp_vars, rf_vars, tb_vars, ex_vars, md_vars, et_vars, rr_vars, jp_vars, tl_vars, pv_vars>>

\* handler, `if cached_response:` and steps 6 and 7: the response is built
\* from the cached dict, track_usage_and_logs is skipped.  Reading a key the
\* dict does not have raises KeyError, which is no TextGenerationError: it
\* leaves the handler.
CacheHitResult(cached) ==
    IF "answer" \in DOMAIN cached
    THEN HandlerReturned(200, cached["answer"], TRUE, FALSE, FALSE)
    ELSE HandlerRaised("KeyError")

HandlerCacheHit ==
    /\ hd_pc = "faq_checked"
    /\ Truthy(cached_response)
    /\ handler_result' = CacheHitResult(cached_response)
    /\ hd_pc' = "idle"
    /\ UNCHANGED <<faq_cache, next_faq_id, faq_clock, cached_response,
                   pp_vars, rf_vars, tb_vars, ex_vars, md_vars, et_vars, rr_vars, jp_vars, tl_vars, pv_vars>>

\* handler, the else branch and steps 6 and 7:
\* generate_and_cache_response(...) generates an answer and, when
\* should_cache, calls cache_faq; track_usage_and_logs follows.
generate_and_cache_response ==
    /\ hd_pc = "faq_checked"
    /\ ~Truthy(cached_response)
    /\ \E answer \in Answers, should_cache \in BOOLEAN :
          /\ IF should_cache
             THEN /\ faq_clock < MaxFaqCalls
                  /\ faq_cache' = cache_faq(faq_cache, answer, next_faq_id,
                                            faq_clock + 1)
                  /\ next_faq_id' = next_faq_id + 1
                  /\ faq_clock' = faq_clock + 1
             ELSE UNCHANGED <<faq_cache, next_faq_id, faq_clock>>
          /\ handler_result' = HandlerReturned(200, answer, FALSE, TRUE, TRUE)
    /\ hd_pc' = "idle"
    /\ UNCHANGED <<cached_response,
                   pp_vars, rf_vars, tb_vars, ex_vars, md_vars, et_vars, rr_vars, jp_vars, tl_vars, pv_vars>>

\* A row is marked reported (the reported column of line 234 is written
\* outside these functions).
FaqReported ==
    /\ \E r \in faq_cache :
          /\ ~r.reported
          /\ faq_cache' = (faq_cache \ {r}) \cup {[r EXCEPT !.reported = TRUE]}
    /\ UNCHANGED <<next_faq_id, faq_clock, cached_response, handler_result, hd_pc,
                   pp_vars, rf_vars, tb_vars, ex_vars, md_vars, et_vars, rr_vars, jp_vars, tl_vars, pv_vars>>

NextFaq ==
    \/ handle_faq_check
    \/ HandlerCacheHit
    \/ generate_and_cache_response
    \/ FaqReported

SpecFaq == InitFaq /\ [][NextFaq]_vars

C30_CacheHitReturnsCachedAnswer ==
    [][(hd_pc = "faq_checked" /\ Truthy(cached_response) /\ hd_pc' = "idle")
          => /\ handler_result'.raised = ""
             /\ handler_result'.statusCode = 200
             /\ handler_result'.response = cached_response.answer_text
             /\ handler_result'.from_cache
             /\ ~handler_result'.generated
             /\ ~handler_result'.tracked]_vars

====
